---- MODULE Spec2Model ----
(***************************************************************************)
(* Model of the client/server simulator's engine: the Simulation           *)
(* controller (Start / run / startClientIn / Stop), the Client request     *)
(* loop with its behavior hooks, Network.Send and the Server (direct mode  *)
(* and queue + worker-pool mode with its resource manager).                *)
(***************************************************************************)
EXTENDS Integers, Sequences, FiniteSets, TLC

\* ---------------------------------------------------------------- bounds
\* requests one client loop schedules before the model stops scheduling
MaxReq == 1
\* attempts (sends) of one request the script inputs may ask for
MaxAttempts == 3
\* ... in the runs that go through Simulation.Stop
StopAttempts == 2
\* on_request evaluations of one attempt the script inputs may delay
MaxEvals == 2
\* hook calls the request subtasks of one client make concurrently
MaxCalls == 3
\* capacity of StarlarkClientBehavior.executionChan the model uses
ExecChanCap == 1
\* client group configurations the model lets a simulation hold
MaxConfigs == 3
\* clock ticks the sliding-window runs last, ticks in the 1 s window, and the
\* response-time and latency events recorded in one run
MaxNow == 4
WindowTicks == 2
MaxEvents == 3
\* EventsHub: subscriber channels, events published, capacity of the publish
\* channel the model uses, Unsubscribe calls per channel
MaxSubs == 2
MaxPublished == 2
HubBuffer == 1
MaxUnsubs == 2
\* runs one dashboard starts
MaxRuns == 3
\* control points of a curve, and the largest x bound of a curve
MaxPoints == 3
MaxX == 2
\* SetBehavior calls per component, requests that use the curves, clock ticks
MaxVersions == 1
MaxUses == 2
MaxClock == 2
\* calls of Server.Start on one server
MaxStarts == 3
\* simulation runs the emitter is asked to watch, snapshots counted per run
MaxWatched == 4
MaxTicks == 3
\* leak rates, worker counts and consecutive ticks of the resource manager
MaxLeakRate == 10
MaxLeakWorkers == 3
MaxLeakTicks == 4
\* largest maxConcurrentRequests and maxQueueSize a behavior can set
MaxPoolWorkers == 2
MaxPoolQueue == 2
\* notification clients, notifications issued, channel capacities, clock
\* ticks of 50 ms
MaxWsClients == 2
MaxNotifications == 3
WsBroadcastCap == 2
WsSendCap == 1
WsMaxNow == 3
\* minBroadcastInterval, 100 ms, in clock ticks
minBroadcastInterval == 2

Clients == {"c1"}
Workers == {"w1"}
ReqIds == 1..MaxReq
Calls == 1..MaxCalls
\* MAX_RETRIES of the simple retry script
MAX_RETRIES == 5
\* the network sends one request may start
Attempts ==
  1..(IF MaxAttempts > MAX_RETRIES + 1 THEN MaxAttempts ELSE MAX_RETRIES + 1)

\* settings of the managed server used by the model (ResourceSettings)
ResourceSettings ==
  [MaxConcurrentRequests |-> Cardinality(Workers), MaxMemoryMB |-> 1,
   MaxQueueSize |-> 1, MemoryLeakRateMBPerSec |-> 10, MemoryPerRequestMB |-> 2]

VARIABLES
  managed,     \* Server.behavior.EnableResourceManagement
  script,      \* the behavior script: how often it asks for a retry / a delay
  meta,        \* Request.Meta["retry_count"] of each request (-1: no such key)
  exec,        \* one StarlarkClientBehavior: its channels, executor and hook calls
  configs,     \* Simulation.clientsConfigs and what the last operation on it returned
  snapshot,    \* one Metrics.GetSnapshot call: counters loaded so far, their values
  dropRate,    \* the network's drop rate in percent (a flat DropRate curve)
  dash,        \* Dashboard: its simulation, the runs started, stopTimer and the timers
  curve,       \* one CurveFunction closure, the x it was last applied to, the result
  behavior,    \* Server / Network behavior: curves, start time, closures; requests using them
  srv,         \* one Server over several Start / Shutdown calls
  emitter,     \* the MetricsEmitter, the simulation runs it watches and the dashboard call
  ws,          \* the notification WebSocketHub, its clients and the clock
  leak,        \* the resource manager's memory leak over consecutive ticks
  pool,        \* a running Server whose behavior is changed: settings, queue, workers
  onRetry,     \* one on_retry evaluation: what the hook returned and what the client did
  hub,         \* one EventsHub, its subscriber channels and its run goroutine
  window,      \* Metrics' sliding windows, the clock and the last snapshot's window values
  behaviorStart, \* Network.behaviorStartTime / Server.behaviorStartTime are set
  simPc,       \* Simulation: created / running / position inside Stop / panicked
  simCancelled,\* Simulation.ctx is cancelled
  simClients,  \* Simulation.clients
  runPc,       \* the Simulation.run goroutine
  startPc,     \* the startClientIn goroutine of each client
  client,      \* Client objects (and their StarlarkClientBehavior)
  req,         \* request subtasks (Client.requestWithHooks)
  send,        \* network-send goroutines (Client.sendRequest / Network.Send)
  queue,       \* Server.requestQueue
  worker,      \* Server.worker goroutines
  rmPc,        \* Server.resourceManager goroutine
  srvCancelled,\* Server.cancel has been called
  resource,    \* Server.resourceState
  metrics      \* Metrics counters

vars == <<managed, script, meta, exec, configs, snapshot, window, dropRate, hub, dash,
          curve, behavior, srv, emitter, ws,
          behaviorStart,
          simPc,
          simCancelled, simClients, runPc, startPc,
          client, req, send, queue, worker, rmPc, srvCancelled, resource, metrics,
          leak,
          pool,
          onRetry>>

staticVars ==
  <<managed, script, meta, exec, configs, snapshot, window, dropRate, hub, dash,
    curve, behavior, srv, emitter, ws,
    leak,
    pool,
    onRetry>>
cfgVars == <<staticVars, behaviorStart>>
simVars == <<simPc, simCancelled, simClients, runPc, startPc>>
srvVars == <<queue, worker, rmPc, srvCancelled, resource>>

\* ---------------------------------------------------------------- values
NoResult == [set |-> FALSE, ok |-> FALSE, error |-> "", err |-> "nil"]
Result(ok, error, err) == [set |-> TRUE, ok |-> ok, error |-> error, err |-> err]

ErrCancelled == "context canceled"
ErrPacketLost == "packet lost"
ErrTimeout == "client request timed"
ErrQueueFull == "server queue full"
ErrOutOfMemory == "server out of memory"
ErrServer == "server error"

\* what a script hook may return: a non-mapping value (None) or a mapping whose
\* "allow" key is absent, truthy or falsy
ScriptValues ==
  [isDict : BOOLEAN, allow : {"absent", "true", "false"}, delay : 0..1, timeout : 0..1]

ScriptResult(allow, delayMs, timeoutMs, err) ==
  [allow |-> allow, delayMs |-> delayMs, timeoutMs |-> timeoutMs, err |-> err]

parseOnRequestResult(v) ==
  IF v.isDict
  THEN [allow |-> v.allow # "false", delayMs |-> v.delay, timeoutMs |-> v.timeout]
  ELSE [allow |-> TRUE, delayMs |-> 0, timeoutMs |-> 0]

\* StarlarkClientBehavior.executeFunction: defined = the script declares the
\* hook, raises = the call raises, v = the value the hook returns
executeFunction(execType, defined, raises, v) ==
  CASE execType = "on_request" ->
         IF ~defined THEN ScriptResult(TRUE, 0, 0, FALSE)
         ELSE IF raises THEN ScriptResult(FALSE, 0, 0, TRUE)
         ELSE LET p == parseOnRequestResult(v)
              IN ScriptResult(p.allow, p.delayMs, p.timeoutMs, FALSE)
    [] execType = "on_retry" ->
         IF ~defined THEN ScriptResult(FALSE, 0, 0, FALSE)
         ELSE IF raises THEN ScriptResult(FALSE, 0, 0, TRUE)
         ELSE LET p == parseOnRequestResult(v)
              IN ScriptResult(p.allow, p.delayMs, 0, FALSE)
    [] OTHER ->
         IF ~defined THEN ScriptResult(FALSE, 0, 0, FALSE)
         ELSE ScriptResult(FALSE, 0, 0, raises)

\* the result a closed stop channel gives a hook call
StoppedResult == ScriptResult(FALSE, 0, 0, FALSE)

\* StarlarkClientBehavior.OnRequest / OnRetry / ...: the results one call can
\* return. Both selects choose at random among the ready cases, so once the
\* stop channel is closed the default is always possible and an evaluated
\* result is possible as long as the executor goroutine has not returned.
HookResults(c, execType) ==
  LET evaluated == {executeFunction(execType, d, r, v) :
                      d \in BOOLEAN, r \in BOOLEAN, v \in ScriptValues}
  IN IF ~client[c].closed THEN evaluated
     ELSE IF client[c].execRunning THEN evaluated \cup {StoppedResult}
     ELSE {StoppedResult}

\* ---------------------------------------------------------------- contexts
\* Client.ctx derives from Simulation.ctx; Server.ctx derives from it too
ClientCtxDone(c) == simCancelled \/ client[c].stopPc \in {"close", "wait", "done"}
ServerCtxDone == simCancelled \/ srvCancelled

\* ---------------------------------------------------------------- initial state
NoReq == [pc |-> "none", isRetry |-> FALSE, timeout |-> 0, attempt |-> 0,
          evals |-> 0, hooks |-> <<>>, outcome |-> NoResult]
NoSend == [pc |-> "none", res |-> NoResult, chan |-> NoResult, chanClosed |-> FALSE]
NoClient == [created |-> FALSE, cancelSet |-> FALSE, closed |-> FALSE,
             execRunning |-> FALSE, loopPc |-> "none", stopPc |-> "none",
             spawned |-> 0]
ZeroMetrics == [sent |-> 0, retried |-> 0, blocked |-> 0, success |-> 0,
                errorResp |-> 0, netFailed |-> 0, srvReceived |-> 0,
                srvSuccess |-> 0, srvError |-> 0]

\* the state after NewSimulation
\* one hook call: where the caller is, the work item it submitted, the
\* item's result channel and how the call returned
NoCall ==
  [pc |-> "none", execType |-> "none", item |-> "none",
   resultCh |-> <<>>, evals |-> 0, via |-> "none", afterStop |-> FALSE]

\* NewStarlarkClientBehavior: empty channels, the executor goroutine started
NewStarlarkClientBehavior ==
  [executionChan |-> <<>>, stopChan |-> "open", executor |-> "select",
   call |-> [k \in Calls |-> NoCall]]

\* the values calculateSlidingWindowMetrics and
\* calculateNetworkLatencyMetrics keep in Metrics
ZeroWindowMetrics ==
  [MinResponseTime |-> 0, MaxResponseTime |-> 0, AvgResponseTime |-> 0,
   P50ResponseTime |-> 0, P80ResponseTime |-> 0, P95ResponseTime |-> 0,
   MinRequestLatency |-> 0, MaxRequestLatency |-> 0,
   MinResponseLatency |-> 0, MaxResponseLatency |-> 0]

\* NewMetrics, with the clock at 0 and no snapshot taken
NewMetrics ==
  [now |-> 0, events |-> 0, lastRecord |-> -1,
   ResponseTimes |-> <<>>, RequestLatencies |-> <<>>, ResponseLatencies |-> <<>>,
   kept |-> ZeroWindowMetrics,
   taken |-> FALSE, quiet |-> FALSE, reported |-> ZeroWindowMetrics]

Subs == 1..MaxSubs

\* NewEventsHub: empty channels, no subscriber, the run goroutine at its
\* select; no subscriber channel made yet
NewEventsHub ==
  [publish |-> <<>>, subscribers |-> {}, pc |-> "select", event |-> 0, todo |-> {},
   published |-> 0, panicked |-> FALSE,
   sub |-> [s \in Subs |-> [state |-> "none", size |-> 0, buf |-> <<>>,
                            closes |-> 0, unsubs |-> 0]]]

Runs == 1..MaxRuns

\* NewDashboard: no simulation, no timer
NewDashboard ==
  [simulation |-> "nil", running |-> FALSE, run |-> 0, stopTimer |-> 0,
   timer |-> [t \in Runs |-> "none"]]

ZeroResourceState == [ActiveRequests |-> 0, CurrentMemoryMB |-> 0, MemUtilMB |-> 0]

\* NewServer: not running, resource management off, no queue (a nil channel
\* is queue 0), no goroutine
NewServer ==
  [running |-> FALSE, enable |-> FALSE, ctxDone |-> FALSE,
   queue |-> [gen |-> 0, len |-> 0], resourceState |-> ZeroResourceState,
   idle |-> 0, busy |-> 0, rm |-> 0, starts |-> 0, started |-> FALSE,
   call |-> [op |-> "none", pc |-> "idle", err |-> "nil"]]

Watched == 1..MaxWatched

\* NewMetricsEmitter: run waits on the watch channel; no simulation runs and
\* no dashboard call is under way
NewMetricsEmitter ==
  [pc |-> "recv", run |-> 0, ticks |-> 0, late |-> 0,
   sim |-> [running |-> FALSE, run |-> 0],
   done |-> [r \in Watched |-> FALSE],
   call |-> "idle"]

WsClients == 1..MaxWsClients
Notifications == 1..MaxNotifications

\* NewWebSocketHub: no client, an empty broadcast channel, a zero
\* lastBroadcastTime (-1), run waits in its select
NewWebSocketHub ==
  [clients |-> {}, broadcast |-> <<>>, lastBroadcastTime |-> -1,
   overwritten |-> -1, pc |-> "select", message |-> 0, now |-> 0, issued |-> 0,
   sendBuffer |-> [c \in WsClients |-> <<>>],
   state |-> [c \in WsClients |-> "new"],
   closes |-> [c \in WsClients |-> 0], panicked |-> FALSE]

\* no settings chosen, no tick yet
NoLeak == [rate |-> 0, active |-> 0, maxReqs |-> 0, ticks |-> 0, leaked |-> 0]

\* NewServer: resource management off, the default settings, a nil queue
\* (capacity -1), nothing running
NewPool ==
  [running |-> FALSE, ctxDone |-> FALSE, enable |-> FALSE,
   settings |-> [MaxConcurrentRequests |-> MaxPoolWorkers, MaxQueueSize |-> MaxPoolQueue],
   queueCap |-> -1, queueLen |-> 0, workers |-> 0, ActiveRequests |-> 0,
   last |-> "none"]

\* no on_retry evaluation yet
NoOnRetry == [pc |-> "none", defined |-> FALSE, raises |-> FALSE, value |-> <<>>,
              shouldRetry |-> FALSE, retryDelayMs |-> 0]

Components == {"server", "network"}
Uses == 1..MaxUses

\* the default curves of NewServer / NewNetwork: two points, x = 0 and x = 1
DefaultCurve == <<[X |-> 0, Y |-> 0, Type |-> "Curve"], [X |-> 2, Y |-> 0, Type |-> "Curve"]>>

\* NewServer / NewNetwork: the default behavior, its closures, no start
\* time; no request yet
NewBehavior ==
  [now |-> 0,
   comp |-> [k \in Components |->
               [version |-> 0, start |-> -1, startVersion |-> 0,
                curves |-> [rate |-> DefaultCurve, min |-> DefaultCurve,
                            max |-> DefaultCurve],
                fn |-> [rate |-> 0, min |-> 0, max |-> 0]]],
   use |-> [u \in Uses |->
              [pc |-> "none", comp |-> "none", start |-> -1, startVersion |-> 0,
               fn |-> [rate |-> 0, min |-> 0, max |-> 0],
               first |-> FALSE, elapsed |-> <<>>, used |-> <<>>]]]

\* no closure made yet
NoCurve ==
  [made |-> FALSE, minX |-> 0, maxX |-> 0, minY |-> 0, maxY |-> 0,
   points |-> <<>>, applied |-> FALSE, x |-> 0, result |-> [kind |-> "none", y |-> 0]]

Created ==
  /\ onRetry = NoOnRetry
  /\ pool = NewPool
  /\ leak = NoLeak
  /\ ws = NewWebSocketHub
  /\ emitter = NewMetricsEmitter
  /\ srv = NewServer
  /\ behavior = NewBehavior
  /\ curve = NoCurve
  /\ dash = NewDashboard
  /\ hub = NewEventsHub
  /\ window = NewMetrics
  /\ meta = [c \in Clients |-> [r \in ReqIds |-> -1]]
  /\ exec = NewStarlarkClientBehavior
  /\ configs = [clientsConfigs |-> <<>>, op |-> "none", id |-> "", err |-> "nil"]
  /\ behaviorStart = [network |-> FALSE, server |-> FALSE]
  /\ snapshot = [loaded |-> 0, value |-> ZeroMetrics]
  /\ simPc = "created"
  /\ simCancelled = FALSE
  /\ simClients = {}
  /\ runPc = "none"
  /\ startPc = [c \in Clients |-> "none"]
  /\ client = [c \in Clients |-> NoClient]
  /\ req = [c \in Clients |-> [r \in ReqIds |-> NoReq]]
  /\ send = [c \in Clients |-> [r \in ReqIds |-> [a \in Attempts |-> NoSend]]]
  /\ queue = <<>>
  /\ worker = [w \in Workers |-> [pc |-> "none", cur |-> <<>>, res |-> NoResult]]
  /\ rmPc = "none"
  /\ srvCancelled = FALSE
  /\ resource = [ActiveRequests |-> 0, CurrentMemoryMB |-> 0, MemUtilMB |-> 0]
  /\ metrics = ZeroMetrics

\* a direct-mode server and a script that retries and delays
Init ==
  /\ managed = FALSE
  /\ script = [attempts |-> StopAttempts, evals |-> MaxEvals]
  /\ dropRate = 50
  /\ Created

\* ---------------------------------------------------------------- Simulation
\* Simulation.Start: CAS running, create the context, Server.Start (which in
\* managed mode spawns the resource manager and the workers), spawn run
SimStart ==
  /\ simPc = "created"
  /\ simPc' = "running"
  /\ runPc' = "spawn"
  /\ worker' = [w \in Workers |->
                  [worker[w] EXCEPT !.pc = IF managed THEN "idle" ELSE "none"]]
  /\ rmPc' = IF managed THEN "run" ELSE "none"
  /\ UNCHANGED <<cfgVars, simCancelled, simClients, startPc, client,
                 req, send, queue, srvCancelled, resource, metrics>>

\* Simulation.run: one startClientIn goroutine per configured client
SimRun ==
  /\ runPc = "spawn"
  /\ runPc' = "done"
  /\ startPc' = [c \in Clients |-> "sleep"]
  /\ UNCHANGED <<cfgVars, simPc, simCancelled, simClients, client,
                 req, send, srvVars, metrics>>

\* startClientIn: SleepWithContext returns nil (the delay elapsed)
StartWake(c) ==
  /\ startPc[c] = "sleep"
  /\ startPc' = [startPc EXCEPT ![c] = "create"]
  /\ UNCHANGED <<cfgVars, simPc, simCancelled, simClients, runPc,
                 client, req, send, srvVars, metrics>>

\* startClientIn: SleepWithContext returns the context's error
StartCancelled(c) ==
  /\ startPc[c] = "sleep"
  /\ simCancelled
  /\ startPc' = [startPc EXCEPT ![c] = "done"]
  /\ UNCHANGED <<cfgVars, simPc, simCancelled, simClients, runPc,
                 client, req, send, srvVars, metrics>>

\* startClientIn: NewClient (starts the script executor), append to s.clients
StartCreate(c) ==
  /\ startPc[c] = "create"
  /\ startPc' = [startPc EXCEPT ![c] = "appended"]
  /\ client' = [client EXCEPT ![c].created = TRUE, ![c].execRunning = TRUE]
  /\ simClients' = simClients \cup {c}
  /\ UNCHANGED <<cfgVars, simPc, simCancelled, runPc, req, send,
                 srvVars, metrics>>

\* Client.Start: CAS running, set c.ctx and c.cancel
ClientStart(c) ==
  /\ startPc[c] = "appended"
  /\ startPc' = [startPc EXCEPT ![c] = "ctxset"]
  /\ client' = [client EXCEPT ![c].cancelSet = TRUE]
  /\ UNCHANGED <<cfgVars, simPc, simCancelled, simClients, runPc,
                 req, send, srvVars, metrics>>

\* Client.Start: c.wg.Go(c.runWithJitter); startClientIn returns
ClientStartGo(c) ==
  /\ startPc[c] = "ctxset"
  /\ startPc' = [startPc EXCEPT ![c] = "done"]
  /\ client' = [client EXCEPT ![c].loopPc = "check"]
  /\ UNCHANGED <<cfgVars, simPc, simCancelled, simClients, runPc,
                 req, send, srvVars, metrics>>

\* Simulation.Stop: CAS running, s.cancel()
StopBegin ==
  /\ simPc = "running"
  /\ simPc' = "stopLock"
  /\ simCancelled' = TRUE
  /\ UNCHANGED <<cfgVars, simClients, runPc, startPc, client, req,
                 send, srvVars, metrics>>

\* Simulation.Stop: under s.mu, s.wg.Go(client.Stop) for every client of
\* s.clients, then s.clients = nil
StopSchedule ==
  /\ simPc = "stopLock"
  /\ simPc' = "shutdown"
  /\ client' = [c \in Clients |->
                  IF c \in simClients THEN [client[c] EXCEPT !.stopPc = "cancel"]
                  ELSE client[c]]
  /\ simClients' = {}
  /\ UNCHANGED <<cfgVars, simCancelled, runPc, startPc, req, send,
                 srvVars, metrics>>

\* Server.Shutdown: CAS running, s.cancel()
StopShutdown ==
  /\ simPc = "shutdown"
  /\ simPc' = "srvWait"
  /\ srvCancelled' = TRUE
  /\ UNCHANGED <<cfgVars, simCancelled, simClients, runPc, startPc,
                 client, req, send, queue, worker, rmPc, resource, metrics>>

\* Server.Shutdown: s.wg.Wait() returns
StopServerJoined ==
  /\ simPc = "srvWait"
  /\ \A w \in Workers : worker[w].pc \in {"none", "exited"}
  /\ rmPc \in {"none", "exited"}
  /\ simPc' = "wgWait"
  /\ UNCHANGED <<cfgVars, simCancelled, simClients, runPc, startPc,
                 client, req, send, srvVars, metrics>>

\* Simulation.Stop: s.wg.Wait() returns (run, every startClientIn and every
\* client.Stop goroutine has returned); Stop returns
StopReturn ==
  /\ simPc = "wgWait"
  /\ runPc = "done"
  /\ \A c \in Clients : startPc[c] = "done" /\ client[c].stopPc \in {"none", "done"}
  /\ simPc' = "returned"
  /\ behaviorStart' = [network |-> FALSE, server |-> FALSE]
  /\ UNCHANGED <<staticVars, simCancelled, simClients, runPc, startPc,
                 client, req, send, srvVars, metrics>>

\* ---------------------------------------------------------------- Client.Stop
\* an unrecovered panic in any goroutine ends the process: no task is left
Panic ==
  /\ simPc' = "panicked"
  /\ runPc' = "none"
  /\ startPc' = [c \in Clients |-> "none"]
  /\ client' = [c \in Clients |->
                  [client[c] EXCEPT !.execRunning = FALSE, !.loopPc = "none",
                                    !.stopPc = "none"]]
  /\ req' = [c \in Clients |-> [r \in ReqIds |-> NoReq]]
  /\ send' = [c \in Clients |-> [r \in ReqIds |-> [a \in Attempts |-> NoSend]]]
  /\ worker' = [w \in Workers |-> [pc |-> "none", cur |-> <<>>, res |-> NoResult]]
  /\ rmPc' = "none"
  /\ UNCHANGED <<simCancelled, simClients, queue, srvCancelled, resource, metrics>>

\* Client.Stop: c.cancel(); calling the nil func of a client whose Start has
\* not run panics
ClientStopCancel(c) ==
  /\ client[c].stopPc = "cancel"
  /\ IF client[c].cancelSet
     THEN /\ client' = [client EXCEPT ![c].stopPc = "close"]
          /\ UNCHANGED <<simVars, req, send, srvVars, metrics>>
     ELSE Panic
  /\ UNCHANGED cfgVars

\* Client.Stop: c.behavior.Close() closes the executor's stop channel
ClientStopClose(c) ==
  /\ client[c].stopPc = "close"
  /\ client' = [client EXCEPT ![c].stopPc = "wait", ![c].closed = TRUE]
  /\ UNCHANGED <<cfgVars, simVars, req, send, srvVars, metrics>>

ActiveReqs(c) == {r \in ReqIds : req[c][r].pc \notin {"none", "done"}}

\* Client.Stop: c.wg.Wait() returns, running = false
ClientStopWait(c) ==
  /\ client[c].stopPc = "wait"
  /\ client[c].loopPc \in {"none", "done"}
  /\ ActiveReqs(c) = {}
  /\ client' = [client EXCEPT ![c].stopPc = "done"]
  /\ UNCHANGED <<cfgVars, simVars, req, send, srvVars, metrics>>

\* scriptExecutor: the select takes the closed stop channel, the goroutine returns
ExecutorExit(c) ==
  /\ client[c].execRunning
  /\ client[c].closed
  /\ client' = [client EXCEPT ![c].execRunning = FALSE]
  /\ UNCHANGED <<cfgVars, simVars, req, send, srvVars, metrics>>

\* ---------------------------------------------------------------- Client loop
\* runWithJitter: the select on c.ctx.Done() at the top of the loop
LoopCheck(c) ==
  /\ client[c].loopPc = "check"
  /\ ClientCtxDone(c) \/ client[c].spawned < MaxReq
  /\ client' = [client EXCEPT ![c].loopPc =
                  IF ClientCtxDone(c) THEN "done" ELSE "spawn"]
  /\ UNCHANGED <<cfgVars, simVars, req, send, srvVars, metrics>>

\* runWithJitter: c.wg.Go(requestWithHooks)
LoopSpawn(c) ==
  /\ client[c].loopPc = "spawn"
  /\ LET r == client[c].spawned + 1
     IN /\ client' = [client EXCEPT ![c].loopPc = "sleep", ![c].spawned = r]
        /\ req' = [req EXCEPT ![c][r].pc = "eval"]
  /\ UNCHANGED <<cfgVars, simVars, send, srvVars, metrics>>

\* runWithJitter: SleepWithContext returns (its error is ignored)
LoopWake(c) ==
  /\ client[c].loopPc = "sleep"
  /\ client' = [client EXCEPT ![c].loopPc = "check"]
  /\ UNCHANGED <<cfgVars, simVars, req, send, srvVars, metrics>>

\* ---------------------------------------------------------------- requestWithHooks
Bump(m, field, n) == [m EXCEPT ![field] = @ + n]

\* requestWithHooks returned: its locals are gone; the hooks it invoked on its
\* last attempt stay on record
Returned(q, h) == [NoReq EXCEPT !.pc = "done", !.hooks = h]

\* the network-send goroutine of attempt a is the one request r waits for
Awaited(c, r, a) == req[c][r].pc = "wait" /\ req[c][r].attempt = a

\* a network-send goroutine returns: its result goes to the buffered result
\* channel, which only a still waiting sendRequest will ever read
Finish(c, r, a, res) ==
  IF Awaited(c, r, a) THEN [NoSend EXCEPT !.pc = "done", !.res = res] ELSE NoSend

\* a faulty evaluation loop: a blocked request is counted as blocked and sent
\* all the same
ReqAfterOnRequestSendsBlocked(c, r, res) ==
  LET q == req[c][r]
      h == IF q.evals = 0 THEN <<"on_request">> ELSE Append(q.hooks, "on_request")
      a == q.attempt + 1
      blocked == IF res.allow THEN 0 ELSE 1
  IN IF res.allow /\ res.delayMs > 0
     THEN /\ req' = [req EXCEPT ![c][r] = [q EXCEPT !.pc = "delay", !.hooks = h,
                                                    !.evals = q.evals + 1]]
          /\ UNCHANGED <<metrics, send>>
     ELSE /\ req' = [req EXCEPT ![c][r] =
                       [q EXCEPT !.pc = "wait", !.hooks = h, !.evals = q.evals + 1,
                                 !.attempt = a]]
          /\ metrics' = Bump(Bump(metrics, "sent", 1), "blocked", blocked)
          /\ send' = [send EXCEPT ![c][r][a] = [NoSend EXCEPT !.pc = "fwd"]]

\* the pre-request evaluation loop: one behavior.OnRequest call and what the
\* client does with its result (blocked / delay / send)
ReqAfterOnRequest(c, r, res) ==
  LET q == req[c][r]
      h == IF q.evals = 0 THEN <<"on_request">> ELSE Append(q.hooks, "on_request")
      a == q.attempt + 1
  IN IF ~res.allow
     THEN /\ req' = [req EXCEPT ![c][r] = Returned(q, h)]
          /\ metrics' = Bump(metrics, "blocked", 1)
          /\ UNCHANGED send
     ELSE IF res.delayMs > 0
     THEN /\ req' = [req EXCEPT ![c][r] = [q EXCEPT !.pc = "delay", !.hooks = h,
                                                    !.evals = q.evals + 1]]
          /\ UNCHANGED <<metrics, send>>
     ELSE /\ req' = [req EXCEPT ![c][r] =
                       [q EXCEPT !.pc = "wait", !.hooks = h, !.evals = q.evals + 1,
                                 !.attempt = a,
                                 !.timeout = IF res.timeoutMs > 0 THEN res.timeoutMs
                                             ELSE q.timeout]]
          /\ metrics' = Bump(Bump(metrics, "sent", 1), "retried",
                             IF q.isRetry THEN 1 ELSE 0)
          /\ send' = [send EXCEPT ![c][r][a] = [NoSend EXCEPT !.pc = "fwd"]]

ReqOnRequest(c, r) ==
  /\ req[c][r].pc = "eval"
  /\ \E res \in HookResults(c, "on_request") :
       /\ (res.allow /\ res.delayMs > 0) => req[c][r].evals + 1 < script.evals
       /\ ReqAfterOnRequest(c, r, res)
  /\ UNCHANGED <<cfgVars, simVars, client, srvVars>>

\* SleepWithContext of the on_request delay returns nil: re-evaluate
ReqDelayElapsed(c, r) ==
  /\ req[c][r].pc = "delay"
  /\ req' = [req EXCEPT ![c][r].pc = "eval"]
  /\ UNCHANGED <<cfgVars, simVars, client, send, srvVars, metrics>>

\* SleepWithContext of the on_request delay returns the context's error
ReqDelayCancelled(c, r) ==
  /\ req[c][r].pc = "delay"
  /\ ClientCtxDone(c)
  /\ req' = [req EXCEPT ![c][r] = Returned(@, @.hooks)]
  /\ UNCHANGED <<cfgVars, simVars, client, send, srvVars, metrics>>

\* Client.sendRequest: what its select can return
SendRequestResults(c, r) ==
  LET q == req[c][r]
      s == send[c][r][q.attempt]
  IN (IF s.pc = "done" THEN {s.res} ELSE {})
     \cup (IF ClientCtxDone(c) THEN {Result(FALSE, "", ErrCancelled)} ELSE {})
     \cup (IF q.timeout > 0 THEN {Result(FALSE, "", ErrTimeout)} ELSE {})

\* a faulty outcome handling: on_retry is consulted after on_response too
ReqAfterSendAlwaysRetries(c, r, res) ==
  LET q == req[c][r]
      hook == IF res.err = "nil" THEN (IF res.ok THEN "on_response" ELSE "on_error")
              ELSE "on_fail"
      counter == IF res.err = "nil" THEN (IF res.ok THEN "success" ELSE "errorResp")
                 ELSE "netFailed"
  IN /\ req' = [req EXCEPT ![c][r] =
                  [q EXCEPT !.pc = "retry", !.hooks = Append(q.hooks, hook),
                            !.outcome = res]]
     /\ metrics' = Bump(metrics, counter, 1)
     /\ send' = [send EXCEPT ![c][r][q.attempt] =
                   IF @.pc = "done" THEN NoSend ELSE @]

\* a faulty outcome handling: the attempt's network send is abandoned when
\* sendRequest returns
ReqAfterSendAbandons(c, r, res) ==
  LET q == req[c][r]
      hook == IF res.err = "nil" THEN (IF res.ok THEN "on_response" ELSE "on_error")
              ELSE "on_fail"
      counter == IF res.err = "nil" THEN (IF res.ok THEN "success" ELSE "errorResp")
                 ELSE "netFailed"
  IN /\ req' = [req EXCEPT ![c][r] =
                  IF hook = "on_response" THEN Returned(q, Append(q.hooks, hook))
                  ELSE [q EXCEPT !.pc = "retry", !.hooks = Append(q.hooks, hook),
                                 !.outcome = res]]
     /\ metrics' = Bump(metrics, counter, 1)
     /\ send' = [send EXCEPT ![c][r][q.attempt] = NoSend]

\* a faulty outcome handling: an attempt that ends with the context cancelled
\* is counted nowhere
ReqAfterSendSkipsCancelled(c, r, res) ==
  LET q == req[c][r]
      hook == IF res.err = "nil" THEN (IF res.ok THEN "on_response" ELSE "on_error")
              ELSE "on_fail"
      counter == IF res.err = "nil" THEN (IF res.ok THEN "success" ELSE "errorResp")
                 ELSE "netFailed"
  IN /\ req' = [req EXCEPT ![c][r] =
                  IF hook = "on_response" THEN Returned(q, Append(q.hooks, hook))
                  ELSE [q EXCEPT !.pc = "retry", !.hooks = Append(q.hooks, hook),
                                 !.outcome = res]]
     /\ metrics' = Bump(metrics, counter, IF res.err = ErrCancelled THEN 0 ELSE 1)
     /\ send' = [send EXCEPT ![c][r][q.attempt] =
                   IF @.pc = "done" THEN NoSend ELSE @]

\* requestWithHooks after sendRequest returned: the counter and the outcome hook
ReqAfterSend(c, r, res) ==
  LET q == req[c][r]
      hook == IF res.err = "nil" THEN (IF res.ok THEN "on_response" ELSE "on_error")
              ELSE "on_fail"
      counter == IF res.err = "nil" THEN (IF res.ok THEN "success" ELSE "errorResp")
                 ELSE "netFailed"
  IN /\ req' = [req EXCEPT ![c][r] =
                  IF hook = "on_response" THEN Returned(q, Append(q.hooks, hook))
                  ELSE [q EXCEPT !.pc = "retry", !.hooks = Append(q.hooks, hook),
                                 !.outcome = res]]
     /\ metrics' = Bump(metrics, counter, 1)
     \* the result channel of this attempt is never read again
     /\ send' = [send EXCEPT ![c][r][q.attempt] =
                   IF @.pc = "done" THEN NoSend ELSE @]

ReqOutcome(c, r) ==
  /\ req[c][r].pc = "wait"
  /\ \E res \in SendRequestResults(c, r) : ReqAfterSend(c, r, res)
  /\ UNCHANGED <<cfgVars, simVars, client, srvVars>>

\* requestWithHooks: behavior.OnRetry and the handling of its decision
ReqAfterOnRetry(c, r, res) ==
  LET q == req[c][r]
      h == Append(q.hooks, "on_retry")
  IN IF res.allow
     THEN IF res.delayMs > 0
          THEN req' = [req EXCEPT ![c][r] = [q EXCEPT !.pc = "retryDelay", !.hooks = h]]
          ELSE req' = [req EXCEPT ![c][r] = [q EXCEPT !.pc = "eval", !.hooks = h,
                                                      !.isRetry = TRUE, !.evals = 0]]
     ELSE req' = [req EXCEPT ![c][r] = Returned(q, h)]

ReqOnRetry(c, r) ==
  /\ req[c][r].pc = "retry"
  /\ \E res \in HookResults(c, "on_retry") :
       /\ res.allow => req[c][r].attempt < script.attempts
       /\ ReqAfterOnRetry(c, r, res)
  /\ UNCHANGED <<cfgVars, simVars, client, send, srvVars, metrics>>

\* SleepWithContext of the retry delay returns nil: isRetry = true, loop
ReqRetryDelayElapsed(c, r) ==
  /\ req[c][r].pc = "retryDelay"
  /\ req' = [req EXCEPT ![c][r].pc = "eval", ![c][r].isRetry = TRUE,
                        ![c][r].evals = 0]
  /\ UNCHANGED <<cfgVars, simVars, client, send, srvVars, metrics>>

\* SleepWithContext of the retry delay returns the context's error
ReqRetryDelayCancelled(c, r) ==
  /\ req[c][r].pc = "retryDelay"
  /\ ClientCtxDone(c)
  /\ req' = [req EXCEPT ![c][r] = Returned(@, @.hooks)]
  /\ UNCHANGED <<cfgVars, simVars, client, send, srvVars, metrics>>

\* ---------------------------------------------------------------- Network.Send
Zero(err) == Result(FALSE, "", err)

\* Server.HandleRequest returns res = (resp, err) to Network.Send
Handled(c, r, a, res) ==
  send' = [send EXCEPT ![c][r][a] = [NoSend EXCEPT !.pc = "handled", !.res = res]]

\* a faulty Network.Send: an error of HandleRequest is returned to the client
\* as the error of Send
AfterHandleReturnsErr(c, r, a, res) ==
  LET good == res.err = "nil" /\ res.ok
  IN /\ send' = [send EXCEPT ![c][r][a] =
                   IF res.err # "nil" THEN Finish(c, r, a, Zero(res.err))
                   ELSE [NoSend EXCEPT !.pc = "ret",
                                       !.res = Result(res.ok, res.error, "nil")]]
     /\ metrics' = Bump(metrics, IF good THEN "srvSuccess" ELSE "srvError", 1)

\* a faulty Network.Send: only successful answers are counted
AfterHandleCountsSuccessOnly(c, r, a, res) ==
  LET good == res.err = "nil" /\ res.ok
      resp == IF good THEN Result(TRUE, res.error, "nil")
              ELSE Result(FALSE,
                          IF res.error = "" /\ res.err # "nil" THEN res.err
                          ELSE res.error,
                          "nil")
  IN /\ send' = [send EXCEPT ![c][r][a] = [NoSend EXCEPT !.pc = "ret", !.res = resp]]
     /\ metrics' = Bump(metrics, "srvSuccess", IF good THEN 1 ELSE 0)

\* Network.Send after Server.HandleRequest returned (resp, err): the server
\* counters, the rewrite of resp, then the return trip starts
AfterHandle(c, r, a, res) ==
  LET good == res.err = "nil" /\ res.ok
      resp == IF good THEN Result(TRUE, res.error, "nil")
              ELSE Result(FALSE,
                          IF res.error = "" /\ res.err # "nil" THEN res.err
                          ELSE res.error,
                          "nil")
  IN /\ send' = [send EXCEPT ![c][r][a] = [NoSend EXCEPT !.pc = "ret", !.res = resp]]
     /\ metrics' = Bump(metrics, IF good THEN "srvSuccess" ELSE "srvError", 1)

SendAfterHandle(c, r, a) ==
  /\ send[c][r][a].pc = "handled"
  /\ AfterHandle(c, r, a, send[c][r][a].res)
  /\ UNCHANGED <<cfgVars, simVars, client, req, srvVars>>

\* forward oneWayTrip returns after its latency: the request is dropped, or
\* the server-received counter is incremented and HandleRequest is entered
\* a faulty oneWayTrip: it never drops
oneWayTripNeverDrops(rate) == {FALSE}

\* Network.oneWayTrip, the drop decision at a drop rate given in percent:
\* dropRate > 0 && rand.Float64() < dropRate, with rand.Float64() in [0, 1)
oneWayTripDrops(rate) ==
  IF rate > 0 THEN (IF rate >= 100 THEN {TRUE} ELSE {TRUE, FALSE}) ELSE {FALSE}

\* (the send goroutine runs Network.Send's first statements, which set
\* Network.behaviorStartTime if it is unset, whenever it is first scheduled:
\* the model lets that be as late as the end of the forward trip)
SendFwdArrive(c, r, a) ==
  /\ send[c][r][a].pc = "fwd"
  /\ \E dropped \in oneWayTripDrops(dropRate) :
       IF dropped
       THEN /\ send' = [send EXCEPT ![c][r][a] = Finish(c, r, a, Zero(ErrPacketLost))]
            /\ UNCHANGED metrics
       ELSE /\ send' = [send EXCEPT ![c][r][a].pc =
                          IF managed THEN "admit" ELSE "direct"]
            /\ metrics' = Bump(metrics, "srvReceived", 1)
  /\ behaviorStart' = [behaviorStart EXCEPT !.network = TRUE]
  /\ UNCHANGED <<staticVars, simVars, client, req, srvVars>>

\* forward oneWayTrip: SleepWithContext returns the client context's error
SendFwdCancelled(c, r, a) ==
  /\ send[c][r][a].pc = "fwd"
  /\ ClientCtxDone(c)
  /\ send' = [send EXCEPT ![c][r][a] = Finish(c, r, a, Zero(ErrCancelled))]
  /\ behaviorStart' = [behaviorStart EXCEPT !.network = TRUE]
  /\ UNCHANGED <<staticVars, simVars, client, req, srvVars, metrics>>

\* Server.processRequest: the results it can return
ProcessRequestResults ==
  {Result(TRUE, "", "nil"), Result(FALSE, "Server Error", ErrServer)}
    \cup (IF ServerCtxDone THEN {Zero(ErrCancelled)} ELSE {})

\* direct mode: HandleRequest = processRequest
SendDirect(c, r, a) ==
  /\ send[c][r][a].pc = "direct"
  /\ \E res \in ProcessRequestResults : Handled(c, r, a, res)
  /\ behaviorStart' = [behaviorStart EXCEPT !.server = TRUE]
  /\ UNCHANGED <<staticVars, simVars, client, req, srvVars, metrics>>

MemoryFull == resource.MemUtilMB * 100 > 98 * ResourceSettings.MaxMemoryMB

\* handleRequestWithResources: the memory check and the shutdown check
SendAdmitCheck(c, r, a) ==
  /\ send[c][r][a].pc = "admit"
  /\ IF MemoryFull THEN Handled(c, r, a, Zero(ErrOutOfMemory))
     ELSE IF ServerCtxDone THEN Handled(c, r, a, Zero(ErrCancelled))
     ELSE send' = [send EXCEPT ![c][r][a].pc = "enqueue"]
  /\ UNCHANGED <<cfgVars, simVars, client, req, srvVars, metrics>>

\* a faulty queue: its buffer takes one request more than MaxQueueSize
QueueTakesOneMore == Len(queue) <= ResourceSettings.MaxQueueSize

\* the buffered channel s.requestQueue accepts a send
QueueHasRoom == Len(queue) < ResourceSettings.MaxQueueSize

\* handleRequestWithResources: the non-blocking enqueue
SendEnqueue(c, r, a) ==
  /\ send[c][r][a].pc = "enqueue"
  /\ \/ /\ QueueHasRoom
        /\ queue' = Append(queue, <<c, r, a>>)
        /\ send' = [send EXCEPT ![c][r][a].pc = "waitReply"]
     \/ /\ ServerCtxDone
        /\ Handled(c, r, a, Zero(ErrCancelled))
        /\ UNCHANGED queue
     \/ /\ ~QueueHasRoom /\ ~ServerCtxDone
        /\ Handled(c, r, a, Zero(ErrQueueFull))
        /\ UNCHANGED queue
  /\ UNCHANGED <<cfgVars, simVars, client, req, worker, rmPc, srvCancelled, resource,
                 metrics>>

\* handleRequestWithResources: what the wait on the reply channel can return
ReplyResults(s) ==
  (IF s.chan.set THEN {s.chan}
   ELSE IF s.chanClosed THEN {Zero("nil")} ELSE {})
  \cup (IF ServerCtxDone THEN {Zero(ErrCancelled)} ELSE {})

SendReply(c, r, a) ==
  /\ send[c][r][a].pc = "waitReply"
  /\ \E res \in ReplyResults(send[c][r][a]) : Handled(c, r, a, res)
  /\ UNCHANGED <<cfgVars, simVars, client, req, srvVars, metrics>>

\* return oneWayTrip returns after its latency: dropped or delivered
SendRetArrive(c, r, a) ==
  /\ send[c][r][a].pc = "ret"
  /\ \E dropped \in oneWayTripDrops(dropRate) :
       send' = [send EXCEPT ![c][r][a] =
                  Finish(c, r, a, IF dropped THEN Zero(ErrPacketLost) ELSE @.res)]
  /\ UNCHANGED <<cfgVars, simVars, client, req, srvVars, metrics>>

\* return oneWayTrip: SleepWithContext returns the client context's error
SendRetCancelled(c, r, a) ==
  /\ send[c][r][a].pc = "ret"
  /\ ClientCtxDone(c)
  /\ send' = [send EXCEPT ![c][r][a] = Finish(c, r, a, Zero(ErrCancelled))]
  /\ UNCHANGED <<cfgVars, simVars, client, req, srvVars, metrics>>

\* ---------------------------------------------------------------- Server.worker
\* a worker sends res on (sent) and closes the reply channel of request id; the
\* channel is private to its HandleRequest call, which alone can observe it
Answer(id, sent, res) ==
  LET s == send[id[1]][id[2]][id[3]]
  IN IF s.pc = "waitReply"
     THEN [send EXCEPT ![id[1]][id[2]][id[3]] =
             [s EXCEPT !.chanClosed = TRUE, !.chan = IF sent THEN res ELSE @]]
     ELSE send

\* the outer select takes s.ctx.Done()
WorkerExit(w) ==
  /\ worker[w].pc = "idle"
  /\ ServerCtxDone
  /\ worker' = [worker EXCEPT ![w].pc = "exited"]
  /\ UNCHANGED <<cfgVars, simVars, client, req, send, queue, rmPc, srvCancelled,
                 resource, metrics>>

\* the outer select takes a request from the queue
WorkerDequeue(w) ==
  /\ worker[w].pc = "idle"
  /\ queue # <<>>
  /\ worker' = [worker EXCEPT ![w].pc = "got", ![w].cur = Head(queue)]
  /\ queue' = Tail(queue)
  /\ UNCHANGED <<cfgVars, simVars, client, req, send, rmPc, srvCancelled,
                 resource, metrics>>

\* the context check before processing: close the reply channel and return,
\* or count the request as active
WorkerCheck(w) ==
  /\ worker[w].pc = "got"
  /\ LET id == worker[w].cur
     IN IF ServerCtxDone
        THEN /\ send' = Answer(id, FALSE, NoResult)
             /\ worker' = [worker EXCEPT ![w].pc = "exited", ![w].cur = <<>>]
             /\ UNCHANGED resource
        ELSE /\ worker' = [worker EXCEPT ![w].pc = "proc"]
             /\ resource' = [resource EXCEPT !.ActiveRequests = @ + 1]
             /\ UNCHANGED send
  /\ UNCHANGED <<cfgVars, simVars, client, req, queue, rmPc, srvCancelled, metrics>>

\* s.processRequest(queuedReq.Request, true) returns
WorkerProcess(w) ==
  /\ worker[w].pc = "proc"
  /\ \E res \in ProcessRequestResults :
       worker' = [worker EXCEPT ![w].pc = "reply", ![w].res = res]
  /\ behaviorStart' = [behaviorStart EXCEPT !.server = TRUE]
  /\ UNCHANGED <<staticVars, simVars, client, req, send, queue, rmPc, srvCancelled,
                 resource, metrics>>

\* the select that sends the result (or takes s.ctx.Done()), then
\* close(queuedReq.Response) and ActiveRequests--
WorkerReply(w) ==
  /\ worker[w].pc = "reply"
  /\ LET id == worker[w].cur
     IN \E sent \in (IF ServerCtxDone THEN BOOLEAN ELSE {TRUE}) :
          send' = Answer(id, sent, worker[w].res)
  /\ worker' = [worker EXCEPT ![w].pc = "idle", ![w].cur = <<>>, ![w].res = NoResult]
  /\ resource' = [resource EXCEPT !.ActiveRequests = @ - 1]
  /\ UNCHANGED <<cfgVars, simVars, client, req, queue, rmPc, srvCancelled, metrics>>

\* ---------------------------------------------------------------- resourceManager
Min(a, b) == IF a < b THEN a ELSE b

\* updateResources: if loadFactor > 0.1 the leak is
\* int64(MemoryLeakRateMBPerSec * 0.1 * loadFactor), loadFactor being
\* activeReqs / maxReqs
leakAmount(rate, active, maxReqs) ==
  IF active * 10 > maxReqs THEN (rate * active) \div (10 * maxReqs) ELSE 0

\* Server.updateResources, the memory part; gc = the GC interval has elapsed
updateResources(rs, gc) ==
  LET active == rs.ActiveRequests
      maxReqs == ResourceSettings.MaxConcurrentRequests
      maxMem == ResourceSettings.MaxMemoryMB
      \* targetMemoryMB in tenths of a MB: maxReqs * 0.5 + active * perRequest
      target10 == maxReqs * 5 + active * ResourceSettings.MemoryPerRequestMB * 10
      m1 == rs.CurrentMemoryMB
              + leakAmount(ResourceSettings.MemoryLeakRateMBPerSec, active, maxReqs)
      currentTarget == target10 \div 10
      m2 == IF m1 < currentTarget THEN m1 + (currentTarget - m1) \div 2
            ELSE IF m1 > currentTarget /\ active * 10 < maxReqs
            THEN m1 - (m1 - currentTarget) \div 20
            ELSE m1
      m3 == Min(m2, maxMem)
      targetAfterGC == (target10 * 11) \div 100
      m4 == IF gc /\ m3 > targetAfterGC THEN targetAfterGC ELSE m3
  IN [rs EXCEPT !.CurrentMemoryMB = m4, !.MemUtilMB = m3]

\* the ticker fires
RMTick ==
  /\ rmPc = "run"
  /\ \E gc \in BOOLEAN : resource' = updateResources(resource, gc)
  /\ UNCHANGED <<cfgVars, simVars, client, req, send, queue, worker, rmPc,
                 srvCancelled, metrics>>

\* the select takes s.ctx.Done()
RMExit ==
  /\ rmPc = "run"
  /\ ServerCtxDone
  /\ rmPc' = "exited"
  /\ UNCHANGED <<cfgVars, simVars, client, req, send, queue, worker,
                 srvCancelled, resource, metrics>>

\* ---------------------------------------------------------------- specification
\* Simulation.Start, run and the start-up of the clients
Startup ==
  \/ SimStart \/ SimRun
  \/ \E c \in Clients :
       \/ StartWake(c) \/ StartCreate(c) \/ ClientStart(c) \/ ClientStartGo(c)
       \/ LoopCheck(c) \/ LoopSpawn(c) \/ LoopWake(c)

\* Simulation.Stop, Client.Stop, and the tasks that leave on cancellation
Shutdown ==
  \/ StopBegin \/ StopSchedule \/ StopShutdown \/ StopServerJoined \/ StopReturn
  \/ \E c \in Clients :
       \/ StartCancelled(c) \/ ClientStopCancel(c) \/ ClientStopClose(c)
       \/ ClientStopWait(c) \/ ExecutorExit(c)

\* the request subtasks of a running client
Requests ==
  \E c \in Clients, r \in ReqIds :
    \/ ReqOnRequest(c, r) \/ ReqDelayElapsed(c, r) \/ ReqOutcome(c, r)
    \/ ReqOnRetry(c, r)

Retries ==
  \E c \in Clients, r \in ReqIds : ReqRetryDelayElapsed(c, r)

RequestsCancelled ==
  \E c \in Clients, r \in ReqIds : ReqDelayCancelled(c, r)

RetriesCancelled ==
  \E c \in Clients, r \in ReqIds : ReqRetryDelayCancelled(c, r)

\* Network.Send around Server.HandleRequest
Trips ==
  \E c \in Clients, r \in ReqIds, a \in Attempts :
    \/ SendFwdArrive(c, r, a) \/ SendAfterHandle(c, r, a) \/ SendRetArrive(c, r, a)

TripsCancelled ==
  \E c \in Clients, r \in ReqIds, a \in Attempts :
    \/ SendFwdCancelled(c, r, a) \/ SendRetCancelled(c, r, a)

DirectServer ==
  \E c \in Clients, r \in ReqIds, a \in Attempts : SendDirect(c, r, a)

ManagedServer ==
  \/ RMTick
  \/ \E c \in Clients, r \in ReqIds, a \in Attempts :
       \/ SendAdmitCheck(c, r, a) \/ SendEnqueue(c, r, a) \/ SendReply(c, r, a)
  \/ \E w \in Workers :
       \/ WorkerDequeue(w) \/ WorkerCheck(w) \/ WorkerProcess(w) \/ WorkerReply(w)

ManagedServerCancelled ==
  \/ RMExit
  \/ \E w \in Workers : WorkerExit(w)

\* a whole run, Start to Stop, against a direct-mode server
Next ==
  \/ Startup \/ Shutdown \/ Requests \/ Retries \/ RequestsCancelled
  \/ RetriesCancelled \/ Trips \/ TripsCancelled \/ DirectServer

Spec == Init /\ [][Next]_vars

\* a whole run, Start to Stop, against a managed server; the script never retries
InitManaged ==
  /\ managed = TRUE
  /\ script = [attempts |-> 1, evals |-> MaxEvals]
  /\ dropRate = 50
  /\ Created

NextManaged ==
  \/ Startup \/ Shutdown \/ Requests \/ RequestsCancelled \/ Trips
  \/ TripsCancelled \/ ManagedServer \/ ManagedServerCancelled

SpecManaged == InitManaged /\ [][NextManaged]_vars

\* a running simulation that is never stopped, against a managed server
InitRun ==
  /\ managed = TRUE
  /\ script = [attempts |-> MaxAttempts, evals |-> MaxEvals]
  /\ dropRate = 50
  /\ Created

NextRun ==
  Startup \/ Requests \/ Retries \/ Trips \/ ManagedServer

SpecRun == InitRun /\ [][NextRun]_vars

\* ---------------------------------------------------------------- hook order
OutcomeHooks == {"on_response", "on_error", "on_fail"}

\* the number of on_request calls at the head of the hook calls h
RECURSIVE Evaluations(_)
Evaluations(h) ==
  IF h # <<>> /\ Head(h) = "on_request" THEN 1 + Evaluations(Tail(h)) ELSE 0

\* what follows the on_request calls of h
AfterEvaluations(h) == SubSeq(h, Evaluations(h) + 1, Len(h))

\* h is a prefix of  on_request+ (on_response | (on_error | on_fail) on_retry)
InHookOrder(h) ==
  \/ h = <<>>
  \/ /\ Evaluations(h) >= 1
     /\ AfterEvaluations(h) \in
          {<<>>} \cup {<<o>> : o \in OutcomeHooks}
                \cup {<<o, "on_retry">> : o \in OutcomeHooks \ {"on_response"}}

\* the attempt that made the hook calls h is over: a failed outcome has been
\* followed by its on_retry
AttemptOver(h) ==
  AfterEvaluations(h) \notin {<<o>> : o \in OutcomeHooks \ {"on_response"}}

\* C1: on every request the hook calls of an attempt are one or more
\* on_request, then (once the attempt is sent and its outcome known) exactly
\* one of on_response / on_error / on_fail, then exactly one on_retry if and
\* only if the outcome was on_error or on_fail: the calls of an attempt are
\* always a prefix of that order, the outcome hook is called only after the
\* send, and an attempt is left (for the next one, or by returning) only after
\* on_retry has followed a failed outcome.
C1_HookOrder ==
  \A c \in Clients, r \in ReqIds :
    LET q == req[c][r]
    IN /\ InHookOrder(q.hooks)
       /\ q.pc = "wait" => AfterEvaluations(q.hooks) = <<>>
       /\ q.pc = "retry" =>
            AfterEvaluations(q.hooks) \in {<<"on_error">>, <<"on_fail">>}
       /\ q.pc = "retryDelay" => Len(AfterEvaluations(q.hooks)) = 2
       /\ (q.pc = "done" \/ (q.pc = "eval" /\ q.evals = 0)) => AttemptOver(q.hooks)

\* an attempt evaluated on_request twice (a delay), failed in the network and
\* was followed by on_retry, which asked for a retry
C1_Witness ==
  \E c \in Clients, r \in ReqIds :
    /\ req[c][r].isRetry
    /\ req[c][r].pc = "eval"
    /\ req[c][r].hooks = <<"on_request", "on_request", "on_fail", "on_retry">>

\* ---------------------------------------------------------------- blocked requests
\* C10: whenever on_request returns allow = false (on a first attempt or on a
\* retry) the blocked counter goes up by exactly one, the sent counter does
\* not change, no network send is started for the attempt, and the request
\* returns: no hook is called for it afterwards.
C10_BlockedIsNotSent ==
  [][\A c \in Clients, r \in ReqIds :
       /\ \A res \in HookResults(c, "on_request") :
            (req[c][r].pc = "eval" /\ ~res.allow /\ ReqAfterOnRequest(c, r, res))
              => /\ metrics'.blocked = metrics.blocked + 1
                 /\ metrics'.sent = metrics.sent
                 /\ send' = send
                 /\ req'[c][r].pc = "done"
       /\ req[c][r].pc = "done" =>
            /\ req'[c][r].pc \in {"done", "none"}
            /\ req'[c][r].hooks \in {req[c][r].hooks, <<>>}]_vars

\* a retry was blocked: one attempt was sent, then on_request said no
C10_Witness ==
  \E c \in Clients, r \in ReqIds :
    /\ req[c][r].pc = "done"
    /\ req[c][r].hooks = <<"on_request">>
    /\ metrics.sent = 1
    /\ metrics.blocked = 1

\* ---------------------------------------------------------------- Stop
\* C2: Simulation.Stop returns from every running state; in particular no
\* interleaving of Stop with the start-up of a client aborts it: the process
\* never panics.
C2_StopNeverAborts == simPc # "panicked"

\* C3: when Simulation.Stop has returned, every client that startClientIn
\* created has had Client.Stop applied (the stop channel of its script executor
\* is closed), and the workers and the resource manager have exited.
C3_StopLeavesNoTask ==
  simPc = "returned" =>
    /\ \A c \in Clients : client[c].created => client[c].closed
    /\ \A w \in Workers : worker[w].pc \in {"none", "exited"}
    /\ rmPc \in {"none", "exited"}

\* ---------------------------------------------------------------- reply channels
\* the enqueued requests whose reply channel is open and has no reply
PendingReplies ==
  {queue[i] : i \in 1..Len(queue)}
    \cup {worker[w].cur : w \in {x \in Workers : worker[x].pc \in {"got", "proc", "reply"}}}

\* C4: after Server.Shutdown has returned no enqueued request is orphaned:
\* every reply channel has been answered or closed.
C4_NoReplyChannelLeftOpen ==
  simPc \in {"wgWait", "returned"} => PendingReplies = {}

\* C5: a HandleRequest call that enqueued its request returns the pair a
\* worker's processRequest produced or a non-nil cancellation error, never a
\* zero-value response together with a nil error.
C5_ReplyOrCancellation ==
  \A c \in Clients, r \in ReqIds, a \in Attempts :
    send[c][r][a].pc = "handled" => send[c][r][a].res # Zero("nil")

\* ---------------------------------------------------------------- admission
QueueBounded == Len(queue) <= ResourceSettings.MaxQueueSize

\* C6 as stated: the queue never holds more than maxQueueSize requests, and a
\* HandleRequest that leaves admission while the queue holds maxQueueSize
\* requests returns the "server queue full" error.
C6_FullQueueAlwaysRejects ==
  [][/\ QueueBounded'
     /\ \A c \in Clients, r \in ReqIds, a \in Attempts :
          ( /\ send[c][r][a].pc \in {"admit", "enqueue"}
            /\ ~QueueHasRoom
            /\ send'[c][r][a].pc = "handled" )
          => send'[c][r][a].res = Zero(ErrQueueFull)]_vars

\* C6: admission never blocks and the queue is bounded: the queue never holds
\* more than maxQueueSize requests; a call whose enqueue attempt finds the
\* queue full while the server's scope is not cancelled returns "server queue
\* full" at once and enqueues nothing; a call that arrives while the memory
\* utilisation is above 98 % returns "server out of memory" before the queue
\* is looked at.
C6_BoundedQueueRejects ==
  [][/\ QueueBounded'
     /\ \A c \in Clients, r \in ReqIds, a \in Attempts :
          /\ ( /\ send[c][r][a].pc = "enqueue"
               /\ ~QueueHasRoom /\ ~ServerCtxDone
               /\ send'[c][r][a] # send[c][r][a] )
             => /\ send'[c][r][a].pc = "handled"
                /\ send'[c][r][a].res = Zero(ErrQueueFull)
                /\ queue' = queue
          /\ ( /\ send[c][r][a].pc = "admit"
               /\ MemoryFull
               /\ send'[c][r][a] # send[c][r][a] )
             => /\ send'[c][r][a].pc = "handled"
                /\ send'[c][r][a].res = Zero(ErrOutOfMemory)
                /\ queue' = queue]_vars

\* the worker is busy, the queue is full and a third call has been rejected
\* with "server queue full"
C6_Witness ==
  /\ Len(queue) = ResourceSettings.MaxQueueSize
  /\ \E w \in Workers : worker[w].pc = "proc"
  /\ \E c \in Clients, r \in ReqIds, a \in Attempts :
       /\ send[c][r][a].pc = "handled"
       /\ send[c][r][a].res = Zero(ErrQueueFull)

AdmissionErrors == {ErrQueueFull, ErrOutOfMemory}

\* res is what Network.Send returns for a request the server rejected at
\* admission
Rejected(res) ==
  res.set /\ (res.err \in AdmissionErrors \/ res.error \in AdmissionErrors)

\* C7 as stated: a request rejected at admission reaches the client as a
\* transport error: Network.Send yields an error, the client calls on_fail and
\* increments the network-failed counter, not the error-response counter.
C7_RejectionIsTransportError ==
  [][\A c \in Clients, r \in ReqIds :
       LET q == req[c][r]
           s == send[c][r][q.attempt]
       IN (q.pc = "wait" /\ s.pc = "done" /\ Rejected(s.res)
             /\ ReqAfterSend(c, r, s.res))
          => /\ s.res.err # "nil"
             /\ req'[c][r].hooks = Append(q.hooks, "on_fail")
             /\ metrics'.netFailed = metrics.netFailed + 1
             /\ metrics'.errorResp = metrics.errorResp]_vars

\* C7: a request rejected at admission reaches the client as an error
\* response: Network.Send returns a nil error and a response with ok = false
\* whose error text is that of the rejection; the client increments the
\* error-response counter, not the network-failed counter, calls on_error and
\* goes on to on_retry.
C7_RejectionIsErrorResponse ==
  [][\A c \in Clients, r \in ReqIds :
       LET q == req[c][r]
           s == send[c][r][q.attempt]
       IN (q.pc = "wait" /\ s.pc = "done" /\ Rejected(s.res)
             /\ ReqAfterSend(c, r, s.res))
          => /\ s.res.err = "nil" /\ ~s.res.ok /\ s.res.error \in AdmissionErrors
             /\ req'[c][r].hooks = Append(q.hooks, "on_error")
             /\ req'[c][r].pc = "retry"
             /\ metrics'.errorResp = metrics.errorResp + 1
             /\ metrics'.netFailed = metrics.netFailed]_vars

\* the client has called on_error for an attempt the server rejected with
\* "server queue full" and is about to call on_retry
C7_Witness ==
  \E c \in Clients, r \in ReqIds :
    /\ req[c][r].pc = "retry"
    /\ req[c][r].outcome = Result(FALSE, ErrQueueFull, "nil")
    /\ req[c][r].hooks[Len(req[c][r].hooks)] = "on_error"
    /\ metrics.errorResp >= 1

\* ---------------------------------------------------------------- script errors
\* C8: an error raised by a script hook makes the decision the no-op default:
\* a raising on_request is treated as allow = true (the request is not counted
\* as blocked and goes on to be sent), a raising on_retry as no retry.
C8_ScriptErrorIsNoOp ==
  [][\A c \in Clients, r \in ReqIds : \A v \in ScriptValues :
       /\ ( /\ req[c][r].pc = "eval"
            /\ executeFunction("on_request", TRUE, TRUE, v)
                 \in HookResults(c, "on_request")
            /\ ReqAfterOnRequest(c, r, executeFunction("on_request", TRUE, TRUE, v)) )
          => /\ metrics'.blocked = metrics.blocked
             /\ req'[c][r].pc # "done"
       /\ ( /\ req[c][r].pc = "retry"
            /\ executeFunction("on_retry", TRUE, TRUE, v)
                 \in HookResults(c, "on_retry")
            /\ ReqAfterOnRetry(c, r, executeFunction("on_retry", TRUE, TRUE, v)) )
          => req'[c][r].pc = "done"]_vars

\* ---------------------------------------------------------------- cancellation
\* C9: a cancelled request is never retried: once an attempt has failed with
\* the cancellation error of the client's context no further attempt of the
\* request is sent.
C9_CancelledNeverRetried ==
  \A c \in Clients, r \in ReqIds :
    req[c][r].outcome.err = ErrCancelled => req[c][r].pc # "wait"

\* ---------------------------------------------------------------- timeouts
\* C11: the timeout of an attempt is the one returned by the on_request
\* evaluation that admitted the attempt: when that evaluation returns no
\* timeout the attempt runs without one, also on a retry.
C11_TimeoutPerAttempt ==
  [][\A c \in Clients, r \in ReqIds :
       \A res \in HookResults(c, "on_request") :
         ( /\ req[c][r].pc = "eval"
           /\ res.allow /\ res.delayMs = 0
           /\ ReqAfterOnRequest(c, r, res) )
         => req'[c][r].timeout = res.timeoutMs]_vars

\* the network-send goroutine of attempt a is running
InFlight(c, r, a) == send[c][r][a].pc \notin {"none", "done"}

\* C12: when the timeout of an attempt fires before Network.Send has returned,
\* the client sees the timeout error: it increments the network-failed
\* counter and calls on_fail, then goes on to on_retry; the Send that was
\* started is left running, and a Send nobody waits for any more still
\* increments the server-received counter on arrival and one of the
\* server-success / server-error counters when HandleRequest returns.
C12_TimeoutLeavesSendRunning ==
  [][/\ \A c \in Clients, r \in ReqIds :
          LET q == req[c][r]
          IN ( /\ q.pc = "wait" /\ q.timeout > 0
               /\ InFlight(c, r, q.attempt)
               /\ ReqAfterSend(c, r, Zero(ErrTimeout)) )
             => /\ req'[c][r].pc = "retry"
                /\ req'[c][r].hooks = Append(q.hooks, "on_fail")
                /\ metrics'.netFailed = metrics.netFailed + 1
                /\ metrics'.errorResp = metrics.errorResp
                /\ send' = send
     /\ \A c \in Clients, r \in ReqIds, a \in Attempts :
          (InFlight(c, r, a) /\ ~Awaited(c, r, a)) =>
            /\ (send[c][r][a].pc = "fwd" /\ send'[c][r][a].pc = "admit")
                 => metrics'.srvReceived = metrics.srvReceived + 1
            /\ (send[c][r][a].pc = "handled" /\ send'[c][r][a] # send[c][r][a])
                 => /\ send'[c][r][a].pc = "ret"
                    /\ metrics'.srvSuccess + metrics'.srvError
                         = metrics.srvSuccess + metrics.srvError + 1
            /\ send'[c][r][a].pc = "none" => send[c][r][a].pc \in {"fwd", "ret"}]_vars

\* the only attempt sent timed out at the client while it waited in the server
\* queue; it was then processed and counted as a server success
C12_Witness ==
  \E c \in Clients, r \in ReqIds :
    /\ req[c][r].pc = "retry"
    /\ req[c][r].outcome = Zero(ErrTimeout)
    /\ req[c][r].attempt = 1
    /\ send[c][r][1].pc = "ret"
    /\ metrics.sent = 1 /\ metrics.netFailed = 1
    /\ metrics.srvReceived = 1 /\ metrics.srvSuccess = 1

\* ---------------------------------------------------------------- simple retry script
\* DEFAULT_HTTP_TIMEOUT of the simple retry script
DEFAULT_HTTP_TIMEOUT == 10000

\* on_request of the simple retry script, called with meta.retry_count = m:
\* the meta it leaves and the value it returns
simple_on_request(m) ==
  [meta |-> IF m < 0 THEN 0 ELSE m, raises |-> FALSE,
   value |-> [isDict |-> TRUE, allow |-> "true", delay |-> 0,
              timeout |-> DEFAULT_HTTP_TIMEOUT]]

\* a faulty on_retry: it stops one retry early
simple_on_retry_early(m) ==
  IF m < 0
  THEN [meta |-> m, raises |-> TRUE,
        value |-> [isDict |-> FALSE, allow |-> "absent", delay |-> 0, timeout |-> 0]]
  ELSE IF m + 1 < MAX_RETRIES
  THEN [meta |-> m + 1, raises |-> FALSE,
        value |-> [isDict |-> TRUE, allow |-> "true", delay |-> 0, timeout |-> 0]]
  ELSE [meta |-> m, raises |-> FALSE,
        value |-> [isDict |-> TRUE, allow |-> "false", delay |-> 0, timeout |-> 0]]

\* on_retry of the simple retry script (a missing retry_count key raises)
simple_on_retry(m) ==
  IF m < 0
  THEN [meta |-> m, raises |-> TRUE,
        value |-> [isDict |-> FALSE, allow |-> "absent", delay |-> 0, timeout |-> 0]]
  ELSE IF m < MAX_RETRIES
  THEN [meta |-> m + 1, raises |-> FALSE,
        value |-> [isDict |-> TRUE, allow |-> "true", delay |-> 0, timeout |-> 0]]
  ELSE [meta |-> m, raises |-> FALSE,
        value |-> [isDict |-> TRUE, allow |-> "false", delay |-> 0, timeout |-> 0]]

\* behavior.OnRequest with the simple retry script: the executor evaluates
\* on_request on the request's meta, which the hook changes in place
SimpleOnRequest(c, r) ==
  /\ req[c][r].pc = "eval"
  /\ LET h == simple_on_request(meta[c][r])
     IN /\ meta' = [meta EXCEPT ![c][r] = h.meta]
        /\ ReqAfterOnRequest(c, r,
             executeFunction("on_request", TRUE, h.raises, h.value))
  /\ UNCHANGED <<managed, script, dropRate, onRetry, pool, leak, hub, dash, curve, behavior, srv, emitter, ws, exec, configs, snapshot, window, behaviorStart,
                 simVars, client,
                 srvVars>>

\* behavior.OnRetry with the simple retry script
SimpleOnRetry(c, r) ==
  /\ req[c][r].pc = "retry"
  /\ LET h == simple_on_retry(meta[c][r])
     IN /\ meta' = [meta EXCEPT ![c][r] = h.meta]
        /\ ReqAfterOnRetry(c, r,
             executeFunction("on_retry", TRUE, h.raises, h.value))
  /\ UNCHANGED <<managed, script, dropRate, onRetry, pool, leak, hub, dash, curve, behavior, srv, emitter, ws, exec, configs, snapshot, window, behaviorStart,
                 simVars, client,
                 send, srvVars, metrics>>

\* direct mode with an error rate of 1: processRequest returns the error
SendDirectError(c, r, a) ==
  /\ send[c][r][a].pc = "direct"
  /\ Handled(c, r, a, Result(FALSE, "Server Error", ErrServer))
  /\ behaviorStart' = [behaviorStart EXCEPT !.server = TRUE]
  /\ UNCHANGED <<staticVars, simVars, client, req, srvVars, metrics>>

\* a running simulation whose clients use the simple retry script, against a
\* direct-mode server that always errors
InitRetry ==
  /\ managed = FALSE
  /\ script = [attempts |-> MAX_RETRIES + 1, evals |-> 1]
  /\ dropRate = 50
  /\ Created

NextRetry ==
  \/ Startup
  \/ \E c \in Clients, r \in ReqIds :
       \/ SimpleOnRequest(c, r) \/ ReqOutcome(c, r) \/ SimpleOnRetry(c, r)
  \/ Trips
  \/ \E c \in Clients, r \in ReqIds, a \in Attempts : SendDirectError(c, r, a)

SpecRetry == InitRetry /\ [][NextRetry]_vars

\* C13: with the simple retry script against a server that always errors,
\* every request is sent exactly MAX_RETRIES + 1 times and then given up: each
\* hook sees the retry_count the hook before it left, every send but the first
\* of a request increments the retried counter, a request is given up only by
\* the on_retry that follows its send number MAX_RETRIES + 1, and once all
\* requests are given up the sent and retried counters are MAX_RETRIES + 1
\* and MAX_RETRIES per request.
C13_SixSendsThenGivenUp ==
  [][\A c \in Clients, r \in ReqIds :
       LET q == req[c][r]
       IN /\ q.pc \in {"wait", "retry"} => meta[c][r] = q.attempt - 1
          /\ (q.pc = "eval" /\ req'[c][r].pc = "wait") =>
               /\ metrics'.sent = metrics.sent + 1
               /\ metrics'.retried = metrics.retried + (IF q.attempt >= 1 THEN 1 ELSE 0)
          /\ (q.pc # "done" /\ req'[c][r].pc = "done") =>
               /\ q.pc = "retry"
               /\ q.attempt = MAX_RETRIES + 1
               /\ (\A r2 \in ReqIds : r2 # r => req[c][r2].pc = "done") =>
                    /\ metrics.sent = (MAX_RETRIES + 1) * Cardinality(ReqIds)
                    /\ metrics.retried = MAX_RETRIES * Cardinality(ReqIds)]_vars

\* a request has been given up after its sixth send; five sends were retries
C13_Witness ==
  \E c \in Clients, r \in ReqIds :
    /\ req[c][r].pc = "done"
    /\ meta[c][r] = MAX_RETRIES
    /\ metrics.sent = MAX_RETRIES + 1
    /\ metrics.retried = MAX_RETRIES
    /\ metrics.blocked = 0

\* ---------------------------------------------------------------- script executor
\* everything but the StarlarkClientBehavior under study
engineVars ==
  <<managed, script, dropRate, onRetry, pool, leak, ws, emitter, srv, behavior, curve, hub, dash, meta, configs, snapshot, window, behaviorStart,
    simVars, client, req, send, srvVars, metrics>>

\* a request subtask calls a hook (OnRequest, OnRetry, ...): it builds the
\* work item with its own result channel of capacity 1
HookCall(k, execType) ==
  /\ exec.call[k].pc = "none"
  /\ exec' = [exec EXCEPT !.call[k].pc = "submit",
                          !.call[k].execType = execType,
                          !.call[k].item = "new"]
  /\ UNCHANGED engineVars

\* first select, case b.executionChan <- exec: ready while the buffer has room
HookQueued(k) ==
  /\ exec.call[k].pc = "submit"
  /\ Len(exec.executionChan) < ExecChanCap
  /\ exec' = [exec EXCEPT !.executionChan = Append(@, k),
                          !.call[k].pc = "await",
                          !.call[k].item = "queued"]
  /\ UNCHANGED engineVars

\* first select, case <-b.stopChan: the call returns the defaults
HookQueueStopped(k) ==
  /\ exec.call[k].pc = "submit"
  /\ exec.stopChan = "closed"
  /\ exec' = [exec EXCEPT !.call[k].pc = "returned",
                          !.call[k].via = "stop",
                          !.call[k].afterStop = TRUE]
  /\ UNCHANGED engineVars

\* second select, case result := <-resultCh
HookResult(k) ==
  /\ exec.call[k].pc = "await"
  /\ exec.call[k].resultCh # <<>>
  /\ exec' = [exec EXCEPT !.call[k].pc = "returned",
                          !.call[k].via = "result",
                          !.call[k].afterStop = (exec.stopChan = "closed")]
  /\ UNCHANGED engineVars

\* second select, case <-b.stopChan
HookResultStopped(k) ==
  /\ exec.call[k].pc = "await"
  /\ exec.stopChan = "closed"
  /\ exec' = [exec EXCEPT !.call[k].pc = "returned",
                          !.call[k].via = "stop",
                          !.call[k].afterStop = TRUE]
  /\ UNCHANGED engineVars

\* a faulty executor: it takes the next item while one is being evaluated
scriptExecutorReceiveAnytime ==
  /\ exec.executor \in {"select", "evaluate"}
  /\ exec.executionChan # <<>>
  /\ exec' = [exec EXCEPT !.executionChan = Tail(@),
                          !.executor = "evaluate",
                          !.call[Head(exec.executionChan)].item = "evaluating"]
  /\ UNCHANGED engineVars

\* scriptExecutor, case exec := <-b.executionChan
scriptExecutorReceive ==
  /\ exec.executor = "select"
  /\ exec.executionChan # <<>>
  /\ exec' = [exec EXCEPT !.executionChan = Tail(@),
                          !.executor = "evaluate",
                          !.call[Head(exec.executionChan)].item = "evaluating"]
  /\ UNCHANGED engineVars

\* scriptExecutor: result := b.executeFunction(thread, exec); exec.resultCh <- result
scriptExecutorEvaluate(k, defined, raises, v) ==
  /\ exec.executor = "evaluate"
  /\ exec.call[k].item = "evaluating"
  /\ exec' = [exec EXCEPT
       !.executor = "select",
       !.call[k].item = "evaluated",
       !.call[k].evals = @ + 1,
       !.call[k].resultCh =
          <<executeFunction(exec.call[k].execType, defined, raises, v)>>]
  /\ UNCHANGED engineVars

\* scriptExecutor, case <-b.stopChan: return
scriptExecutorStop ==
  /\ exec.executor = "select"
  /\ exec.stopChan = "closed"
  /\ exec' = [exec EXCEPT !.executor = "returned"]
  /\ UNCHANGED engineVars

\* StarlarkClientBehavior.Close (Client.Stop calls it once)
Close ==
  /\ exec.stopChan = "open"
  /\ exec' = [exec EXCEPT !.stopChan = "closed"]
  /\ UNCHANGED engineVars

\* what a returned hook call hands its caller
HookReturn(k) ==
  IF exec.call[k].via = "result" THEN exec.call[k].resultCh[1] ELSE StoppedResult

NextExec ==
  \/ \E k \in Calls, t \in {"on_request", "on_retry"} : HookCall(k, t)
  \/ \E k \in Calls : HookQueued(k)
  \/ \E k \in Calls : HookQueueStopped(k)
  \/ \E k \in Calls : HookResult(k)
  \/ \E k \in Calls : HookResultStopped(k)
  \/ scriptExecutorReceive
  \/ \E k \in Calls, d \in BOOLEAN, r \in BOOLEAN, v \in ScriptValues :
       scriptExecutorEvaluate(k, d, r, v)
  \/ scriptExecutorStop
  \/ Close

SpecExec == Init /\ [][NextExec]_vars

\* the calls whose hook is being evaluated
Evaluating == {k \in Calls : exec.call[k].item = "evaluating"}

\* how often call k is in the executor's input buffer
Buffered(k) ==
  Cardinality({i \in 1..Len(exec.executionChan) : exec.executionChan[i] = k})

\* C14: hook evaluations of one interpreter are serialized and no submitted
\* call is lost or repeated: at most one hook is being evaluated at any time;
\* the input buffer never exceeds its capacity (a submit on a full buffer
\* waits); a submitted call is in exactly one place (once in the buffer, being
\* evaluated, or evaluated with its result on its result channel); no call is
\* evaluated twice; and while the stop channel is open a call returns only
\* with the result of its one evaluation.
C14_EvaluationsSerialized ==
  /\ Cardinality(Evaluating) <= 1
  /\ Len(exec.executionChan) <= ExecChanCap
  /\ \A k \in Calls :
       LET cl == exec.call[k]
       IN /\ cl.evals <= 1
          /\ Buffered(k) = (IF cl.item = "queued" THEN 1 ELSE 0)
          /\ (cl.item = "evaluated") = (cl.resultCh # <<>>)
          /\ (cl.item = "evaluated") = (cl.evals = 1)
          /\ cl.pc = "await" => cl.item \in {"queued", "evaluating", "evaluated"}
          /\ cl.via = "result" => cl.evals = 1
          /\ (cl.pc = "returned" /\ exec.stopChan = "open") =>
               (cl.via = "result" /\ cl.evals = 1)

\* three subtasks call hooks at once while the executor runs: one hook is
\* being evaluated, one call fills the buffer and the third waits to submit
C14_Witness ==
  /\ exec.stopChan = "open"
  /\ Cardinality(Evaluating) = 1
  /\ Len(exec.executionChan) = ExecChanCap
  /\ \E k \in Calls : exec.call[k].pc = "submit"

\* C15: a hook call that returns after the stop channel was closed returns the
\* default values (on_request: allow = false, on_retry: no retry).
C15_StoppedCallsReturnDefaults ==
  \A k \in Calls :
    (exec.call[k].pc = "returned" /\ exec.call[k].afterStop)
      => HookReturn(k) = StoppedResult

\* ---------------------------------------------------------------- client group configurations
\* group ids a caller may supply (the empty id included) and group sizes
ConfigIds == {"", "a", "b"}
ConfigCounts == {1, 2}

ErrRunning == "cannot change client configs while running"
ErrNotFound == "client group not found"

\* Simulation.running
Running == simPc = "running"

\* the position of the first configuration with this id (0: none)
IndexOfId(list, id) ==
  IF \E i \in 1..Len(list) : list[i].Id = id
  THEN CHOOSE i \in 1..Len(list) :
         list[i].Id = id /\ \A j \in 1..(i - 1) : list[j].Id # id
  ELSE 0

\* the list without its element i
RemoveAt(list, i) == SubSeq(list, 1, i - 1) \o SubSeq(list, i + 1, Len(list))

\* an operation on the configurations returns: the list it leaves and its error
ConfigReturn(op, id, list, err) ==
  /\ configs' = [clientsConfigs |-> list, op |-> op, id |-> id, err |-> err]
  /\ UNCHANGED <<managed, script, dropRate, onRetry, pool, leak, hub, dash, curve, behavior, srv, emitter, ws, meta, exec, snapshot, window, behaviorStart, simVars,
                 client, req, send, srvVars, metrics>>

\* a faulty AddClientsConfig: it does not look at Simulation.running
AddClientsConfigUnguarded(id, count) ==
  /\ Len(configs.clientsConfigs) < MaxConfigs
  /\ ConfigReturn("add", id,
       Append(configs.clientsConfigs, [Id |-> id, Count |-> count]), "nil")

\* Simulation.AddClientsConfig
AddClientsConfig(id, count) ==
  /\ Len(configs.clientsConfigs) < MaxConfigs
  /\ IF Running
     THEN ConfigReturn("add", id, configs.clientsConfigs, ErrRunning)
     ELSE ConfigReturn("add", id,
            Append(configs.clientsConfigs, [Id |-> id, Count |-> count]), "nil")

\* Simulation.UpdateClientConfig
UpdateClientConfig(id, count) ==
  LET i == IndexOfId(configs.clientsConfigs, id)
  IN IF Running
     THEN ConfigReturn("update", id, configs.clientsConfigs, ErrRunning)
     ELSE IF i > 0
     THEN ConfigReturn("update", id,
            [configs.clientsConfigs EXCEPT ![i] = [Id |-> id, Count |-> count]],
            "nil")
     ELSE ConfigReturn("update", id, configs.clientsConfigs, ErrNotFound)

\* Simulation.DeleteClientConfigById
DeleteClientConfigById(id) ==
  LET i == IndexOfId(configs.clientsConfigs, id)
  IN IF Running
     THEN ConfigReturn("delete", id, configs.clientsConfigs, ErrRunning)
     ELSE IF i > 0
     THEN ConfigReturn("delete", id, RemoveAt(configs.clientsConfigs, i), "nil")
     ELSE ConfigReturn("delete", id, configs.clientsConfigs, ErrNotFound)

\* Simulation.ClearClientConfigs
ClearClientConfigs ==
  IF Running
  THEN ConfigReturn("clear", "", configs.clientsConfigs, ErrRunning)
  ELSE ConfigReturn("clear", "", <<>>, "nil")

\* the configuration operations around one Start .. Stop of a simulation whose
\* clients are still in their start delay
NextConfig ==
  \/ \E id \in ConfigIds, n \in ConfigCounts : AddClientsConfig(id, n)
  \/ \E id \in ConfigIds, n \in ConfigCounts : UpdateClientConfig(id, n)
  \/ \E id \in ConfigIds : DeleteClientConfigById(id)
  \/ ClearClientConfigs
  \/ SimStart \/ SimRun
  \/ StopBegin \/ StopSchedule \/ StopShutdown \/ StopServerJoined \/ StopReturn
  \/ \E c \in Clients : StartCancelled(c)

SpecConfig == Init /\ [][NextConfig]_vars

\* C16: while the simulation is running, AddClientsConfig, UpdateClientConfig,
\* DeleteClientConfigById and ClearClientConfigs each return an error and
\* leave the list of client group configurations unchanged.
C16_NoConfigChangeWhileRunning ==
  [][Running =>
       /\ \A id \in ConfigIds, n \in ConfigCounts :
            (AddClientsConfig(id, n) \/ UpdateClientConfig(id, n)) =>
              /\ configs'.err # "nil"
              /\ configs'.clientsConfigs = configs.clientsConfigs
       /\ \A id \in ConfigIds :
            (DeleteClientConfigById(id) \/ ClearClientConfigs) =>
              /\ configs'.err # "nil"
              /\ configs'.clientsConfigs = configs.clientsConfigs
       /\ configs'.clientsConfigs = configs.clientsConfigs]_vars

\* a running simulation with a configured group has refused an operation
C16_Witness ==
  /\ Running
  /\ configs.clientsConfigs # <<>>
  /\ configs.op \in {"add", "update", "delete", "clear"}
  /\ configs.err = ErrRunning

\* C17: no two client group configurations of a simulation have the same id.
C17_GroupIdsUnique ==
  \A i, j \in 1..Len(configs.clientsConfigs) :
    i # j => configs.clientsConfigs[i].Id # configs.clientsConfigs[j].Id

\* C18: once Simulation.Stop has returned, the behavior-start timestamps of
\* the network and the server are unset and stay unset (the model starts no
\* further run): no request of the stopped run sets them again.
C18_StartTimesStayUnset ==
  simPc = "returned" => (~behaviorStart.network /\ ~behaviorStart.server)

\* ---------------------------------------------------------------- Metrics.GetSnapshot
\* the counters in the order GetSnapshot loads them, one atomic Load each
LoadOrder ==
  <<"blocked", "sent", "retried", "success", "errorResp", "netFailed",
    "srvReceived", "srvSuccess", "srvError">>

\* GetSnapshot: the next counter's Load
GetSnapshotLoad ==
  /\ snapshot.loaded < Len(LoadOrder)
  /\ LET f == LoadOrder[snapshot.loaded + 1]
     IN snapshot' = [loaded |-> snapshot.loaded + 1,
                     value |-> [snapshot.value EXCEPT ![f] = metrics[f]]]
  /\ UNCHANGED <<managed, script, dropRate, onRetry, pool, leak, hub, dash, curve, behavior, srv, emitter, ws, meta, exec, configs, window, behaviorStart,
                 simVars, client, req, send, srvVars, metrics>>

\* a running simulation (direct-mode server, no retries) observed by one
\* GetSnapshot call
InitSnapshot ==
  /\ managed = FALSE
  /\ script = [attempts |-> 1, evals |-> MaxEvals]
  /\ dropRate = 50
  /\ Created

NextSnapshot ==
  \/ Startup \/ Requests \/ Trips \/ DirectServer
  \/ GetSnapshotLoad

SpecSnapshot == InitSnapshot /\ [][NextSnapshot]_vars

\* C19: in every snapshot, client_success_resp + client_error_resp +
\* network_failed_reqs <= client_sent_req and server_success_resp +
\* server_error_resp <= server_received_req.
C19_SnapshotIsOneInstant ==
  snapshot.loaded = Len(LoadOrder) =>
    /\ snapshot.value.success + snapshot.value.errorResp + snapshot.value.netFailed
         <= snapshot.value.sent
    /\ snapshot.value.srvSuccess + snapshot.value.srvError
         <= snapshot.value.srvReceived

\* ---------------------------------------------------------------- sliding windows
\* durations (ms) an event may carry
Durations == {1, 2}

\* everything but the sliding windows
notWindowVars ==
  <<managed, script, dropRate, onRetry, pool, leak, ws, emitter, srv, behavior, curve, hub, dash, meta, exec, configs, snapshot, behaviorStart, simVars,
    client, req, send, srvVars, metrics>>

\* time passes
Tick ==
  /\ window.now < MaxNow
  /\ window' = [window EXCEPT !.now = @ + 1]
  /\ UNCHANGED notWindowVars

\* recordResponseTime / recordRequestLatency / recordResponseLatency: append
\* the duration with the current time to the list
Record(list, d) ==
  /\ window.events < MaxEvents
  /\ window' = [window EXCEPT
       ![list] = Append(@, [timestamp |-> window.now, duration |-> d]),
       !.events = @ + 1,
       !.lastRecord = window.now]
  /\ UNCHANGED notWindowVars

recordResponseTime(d) == Record("ResponseTimes", d)
recordRequestLatency(d) == Record("RequestLatencies", d)
recordResponseLatency(d) == Record("ResponseLatencies", d)

\* the entries not older than the cutoff
Filtered(list, cutoff) == SelectSeq(list, LAMBDA tr : tr.timestamp >= cutoff)

RECURSIVE Insert(_, _)
Insert(sorted, d) ==
  IF sorted = <<>> THEN <<d>>
  ELSE IF d <= Head(sorted) THEN <<d>> \o sorted
  ELSE <<Head(sorted)>> \o Insert(Tail(sorted), d)

\* slices.Sort of the durations of a window
RECURSIVE Sort(_)
Sort(w) == IF w = <<>> THEN <<>> ELSE Insert(Sort(Tail(w)), Head(w).duration)

RECURSIVE Sum(_)
Sum(w) == IF w = <<>> THEN 0 ELSE Head(w).duration + Sum(Tail(w))

MinOf(w) == CHOOSE d \in {w[i].duration : i \in 1..Len(w)} :
              \A i \in 1..Len(w) : d <= w[i].duration
MaxOf(w) == CHOOSE d \in {w[i].duration : i \in 1..Len(w)} :
              \A i \in 1..Len(w) : d >= w[i].duration

\* int(float64(len(times)) * p), clamped to the last index (1-based here)
PercentileIdx(n, percent) ==
  LET i == (n * percent) \div 100 IN (IF i >= n THEN n - 1 ELSE i) + 1

\* calculateSlidingWindowMetrics on the filtered response times
SlidingWindowMetrics(w) ==
  IF Len(w) > 0
  THEN [MinResponseTime |-> MinOf(w), MaxResponseTime |-> MaxOf(w),
        AvgResponseTime |-> Sum(w) \div Len(w),
        P50ResponseTime |-> Sort(w)[PercentileIdx(Len(w), 50)],
        P80ResponseTime |-> Sort(w)[PercentileIdx(Len(w), 80)],
        P95ResponseTime |-> Sort(w)[PercentileIdx(Len(w), 95)]]
  ELSE [MinResponseTime |-> 0, MaxResponseTime |-> 0, AvgResponseTime |-> 0,
        P50ResponseTime |-> 0, P80ResponseTime |-> 0, P95ResponseTime |-> 0]

\* Metrics.GetSnapshot, the part under m.mu: it reads the ten kept values
\* into the snapshot, then calculateSlidingWindowMetrics(now) and
\* calculateNetworkLatencyMetrics(now) prune the lists and recompute them
GetSnapshot ==
  LET cutoff == window.now - WindowTicks
      rt == Filtered(window.ResponseTimes, cutoff)
      ql == Filtered(window.RequestLatencies, cutoff)
      pl == Filtered(window.ResponseLatencies, cutoff)
  IN /\ window' = [window EXCEPT
          !.taken = TRUE,
          !.quiet = (window.lastRecord < cutoff),
          !.reported = window.kept,
          !.ResponseTimes = rt, !.RequestLatencies = ql, !.ResponseLatencies = pl,
          !.kept = SlidingWindowMetrics(rt) @@
             [MinRequestLatency |-> IF Len(ql) > 0 THEN MinOf(ql) ELSE 0,
              MaxRequestLatency |-> IF Len(ql) > 0 THEN MaxOf(ql) ELSE 0,
              MinResponseLatency |-> IF Len(pl) > 0 THEN MinOf(pl) ELSE 0,
              MaxResponseLatency |-> IF Len(pl) > 0 THEN MaxOf(pl) ELSE 0]]
     /\ UNCHANGED notWindowVars

NextWindow ==
  \/ Tick
  \/ \E d \in Durations : recordResponseTime(d)
  \/ \E d \in Durations : recordRequestLatency(d)
  \/ \E d \in Durations : recordResponseLatency(d)
  \/ GetSnapshot

SpecWindow == Init /\ [][NextWindow]_vars

\* C20: a snapshot taken when no response-time or latency event was recorded
\* during the preceding second reports 0 for min/max/avg/p50/p80/p95 response
\* time and for min/max request and response latency.
C20_IdleSnapshotReportsZero ==
  (window.taken /\ window.quiet) => window.reported = ZeroWindowMetrics

\* ---------------------------------------------------------------- network drops
\* a running simulation against a direct-mode server, at a drop rate of 0,
\* one half or 1
InitDrop ==
  /\ managed = FALSE
  /\ script = [attempts |-> MaxAttempts, evals |-> MaxEvals]
  /\ dropRate \in {0, 50, 100}
  /\ Created

NextDrop ==
  Startup \/ Requests \/ Retries \/ Trips \/ DirectServer

SpecDrop == InitDrop /\ [][NextDrop]_vars

\* C21: a request dropped on the forward trip never reaches
\* Server.HandleRequest and is not counted as received by the server; the
\* client gets the transport error and counts a network failure. At a drop
\* rate of 1 no request is ever received, and whenever no request subtask
\* awaits an attempt the network failures equal the requests sent.
C21_ForwardDropNeverReachesServer ==
  [][/\ \A c \in Clients, r \in ReqIds, a \in Attempts :
          /\ (send[c][r][a].pc = "fwd" /\ send'[c][r][a].pc \in {"done", "none"}) =>
               /\ metrics'.srvReceived = metrics.srvReceived
               /\ Awaited(c, r, a) =>
                    send'[c][r][a] = [NoSend EXCEPT !.pc = "done",
                                                    !.res = Zero(ErrPacketLost)]
          /\ (send[c][r][a].pc = "fwd" /\ send'[c][r][a].pc \notin {"fwd", "done", "none"}) =>
               /\ send'[c][r][a].pc = "direct"
               /\ metrics'.srvReceived = metrics.srvReceived + 1
          /\ (send[c][r][a].pc # "direct" /\ send'[c][r][a].pc = "direct") =>
               send[c][r][a].pc = "fwd"
     /\ \A c \in Clients, r \in ReqIds :
          ( /\ req[c][r].pc = "wait" /\ req'[c][r].pc # "wait"
            /\ req'[c][r].outcome = Zero(ErrPacketLost) ) =>
              /\ metrics'.netFailed = metrics.netFailed + 1
              /\ metrics'.success = metrics.success
              /\ metrics'.errorResp = metrics.errorResp
     /\ dropRate = 100 =>
          /\ metrics.srvReceived = 0
          /\ metrics.success = 0 /\ metrics.errorResp = 0
          /\ (\A c \in Clients, r \in ReqIds : req[c][r].pc # "wait") =>
               metrics.netFailed = metrics.sent]_vars

\* at a drop rate of 1 every attempt of a request was sent and dropped
C21_Witness ==
  /\ dropRate = 100
  /\ \A c \in Clients, r \in ReqIds : req[c][r].pc = "done"
  /\ \A c \in Clients, r \in ReqIds, a \in Attempts : send[c][r][a].pc = "none"
  /\ metrics.sent = MaxAttempts
  /\ metrics.netFailed = MaxAttempts
  /\ metrics.srvReceived = 0

\* ---------------------------------------------------------------- EventsHub
\* everything but the EventsHub
notHubVars ==
  <<managed, script, dropRate, onRetry, pool, leak, ws, emitter, srv, behavior, curve, dash, meta, exec, configs, snapshot, window,
    behaviorStart, simVars, client, req, send, srvVars, metrics>>

\* EventsHub.Publish: the event is queued if the publish channel has room,
\* dropped otherwise
Publish ==
  /\ ~hub.panicked
  /\ hub.published < MaxPublished
  /\ hub' = [hub EXCEPT
       !.published = @ + 1,
       !.publish = IF Len(@) < HubBuffer THEN Append(@, hub.published + 1) ELSE @]
  /\ UNCHANGED notHubVars

\* EventsHub.Subscribe: make(chan T, bufferSize), then the hub takes it from
\* the register channel and adds it to the subscribers
Subscribe(s, bufferSize) ==
  /\ ~hub.panicked
  /\ hub.pc = "select"
  /\ hub.sub[s].state = "none"
  /\ hub' = [hub EXCEPT !.subscribers = @ \cup {s},
                        !.sub[s].state = "open",
                        !.sub[s].size = bufferSize]
  /\ UNCHANGED notHubVars

\* a faulty unregister case: it closes the channel without looking it up
UnsubscribeUnchecked(s) ==
  /\ ~hub.panicked
  /\ hub.pc = "select"
  /\ hub.sub[s].unsubs < MaxUnsubs
  /\ hub' = [hub EXCEPT !.subscribers = @ \ {s},
                        !.sub[s].state = "closed",
                        !.sub[s].closes = @ + 1,
                        !.sub[s].unsubs = @ + 1,
                        !.panicked = (hub.sub[s].state = "closed")]
  /\ UNCHANGED notHubVars

\* EventsHub.Unsubscribe: the hub takes the channel from the unregister
\* channel; if it is a subscriber it is deleted and closed
Unsubscribe(s) ==
  /\ ~hub.panicked
  /\ hub.pc = "select"
  /\ hub.sub[s].unsubs < MaxUnsubs
  /\ hub' = IF s \in hub.subscribers
            THEN [hub EXCEPT !.subscribers = @ \ {s},
                             !.sub[s].state = "closed",
                             !.sub[s].closes = @ + 1,
                             !.sub[s].unsubs = @ + 1,
                             !.panicked = (hub.sub[s].state = "closed")]
            ELSE [hub EXCEPT !.sub[s].unsubs = @ + 1]
  /\ UNCHANGED notHubVars

\* EventsHub.run, case event := <-h.publish
HubReceive ==
  /\ ~hub.panicked
  /\ hub.pc = "select"
  /\ hub.publish # <<>>
  /\ hub' = [hub EXCEPT !.publish = Tail(@), !.event = Head(hub.publish),
                        !.todo = hub.subscribers, !.pc = "range"]
  /\ UNCHANGED notHubVars

\* a faulty distribution: a full subscriber ends the range loop
HubSendStopsAtFull(s) ==
  /\ ~hub.panicked
  /\ hub.pc = "range"
  /\ s \in hub.todo
  /\ hub' = IF Len(hub.sub[s].buf) < hub.sub[s].size
            THEN [hub EXCEPT !.sub[s].buf = Append(@, hub.event),
                             !.todo = @ \ {s},
                             !.panicked = (hub.sub[s].state = "closed")]
            ELSE [hub EXCEPT !.todo = {}]
  /\ UNCHANGED notHubVars

\* EventsHub.run, one iteration of the range over the subscribers: the
\* select sends the event if the channel has room and drops it otherwise
\* (a send on a closed channel panics)
HubSend(s) ==
  /\ ~hub.panicked
  /\ hub.pc = "range"
  /\ s \in hub.todo
  /\ hub' = [hub EXCEPT
       !.sub[s].buf = IF Len(@) < hub.sub[s].size THEN Append(@, hub.event) ELSE @,
       !.todo = @ \ {s},
       !.panicked = (hub.sub[s].state = "closed")]
  /\ UNCHANGED notHubVars

\* EventsHub.run: the range loop is over
HubRangeDone ==
  /\ ~hub.panicked
  /\ hub.pc = "range"
  /\ hub.todo = {}
  /\ hub' = [hub EXCEPT !.pc = "select", !.event = 0]
  /\ UNCHANGED notHubVars

\* a subscriber reads one event from its channel
SubscriberReceive(s) ==
  /\ ~hub.panicked
  /\ hub.sub[s].buf # <<>>
  /\ hub' = [hub EXCEPT !.sub[s].buf = Tail(@)]
  /\ UNCHANGED notHubVars

NextHub ==
  \/ Publish
  \/ \E s \in Subs, n \in 1..2 : Subscribe(s, n)
  \/ \E s \in Subs : Unsubscribe(s)
  \/ HubReceive
  \/ \E s \in Subs : HubSend(s)
  \/ HubRangeDone
  \/ \E s \in Subs : SubscriberReceive(s)

SpecHub == Init /\ [][NextHub]_vars

\* the hub run goroutine has taken the step of the range loop for s
HubSent(s) == hub.pc = "range" /\ s \in hub.todo /\ s \notin hub'.todo

\* C22: Publish never blocks (the event is queued, or dropped when the
\* publish channel is full), and the distribution never blocks on a
\* subscriber: every subscriber of the hub is visited, the step for a
\* subscriber is always possible, a subscriber with a full buffer loses this
\* event only, and a subscriber with room receives it whatever the others'
\* buffers are.
C22_PublishAndDistributionNeverBlock ==
  [][/\ hub.published < MaxPublished => ENABLED Publish
     /\ (hub.published' = hub.published + 1) =>
          /\ hub'.publish = IF Len(hub.publish) < HubBuffer
                            THEN Append(hub.publish, hub.published + 1)
                            ELSE hub.publish
          /\ hub'.sub = hub.sub
     /\ (hub.pc = "select" /\ hub'.pc = "range") => hub'.todo = hub.subscribers
     /\ (hub.pc = "range" /\ hub'.pc = "select") => hub.todo = {}
     /\ \A s \in Subs :
          /\ (hub.pc = "range" /\ s \in hub.todo) => ENABLED HubSend(s)
          /\ HubSent(s) =>
               /\ hub'.sub[s].buf =
                    IF Len(hub.sub[s].buf) < hub.sub[s].size
                    THEN Append(hub.sub[s].buf, hub.event)
                    ELSE hub.sub[s].buf
               /\ \A t \in Subs \ {s} : hub'.sub[t] = hub.sub[t]
               /\ hub'.todo = hub.todo \ {s}
               /\ hub'.event = hub.event]_vars

\* one subscriber's buffer is full and the other has just received the event
\* the full one will lose
C22_Witness ==
  \E s, t \in Subs :
    /\ hub.pc = "range" /\ s \in hub.todo /\ t \notin hub.todo
    /\ {s, t} \subseteq hub.subscribers /\ s # t
    /\ Len(hub.sub[s].buf) = hub.sub[s].size
    /\ hub.sub[t].buf # <<>>
    /\ hub.sub[t].buf[Len(hub.sub[t].buf)] = hub.event
    /\ hub.event \notin {hub.sub[s].buf[i] : i \in 1..Len(hub.sub[s].buf)}

\* C23: Unsubscribe removes the channel from the subscribers and closes it
\* exactly once; nothing is sent on a closed channel; a second Unsubscribe of
\* the channel, or an Unsubscribe of a channel that never subscribed, closes
\* nothing and does not panic.
C23_UnsubscribeClosesOnce ==
  [][/\ ~hub.panicked
     /\ \A s \in Subs :
          /\ hub.sub[s].closes <= 1
          /\ (hub.sub[s].state = "closed") = (hub.sub[s].closes = 1)
          /\ hub.sub[s].state = "closed" =>
               /\ s \notin hub.subscribers /\ s \notin hub.todo
               /\ Len(hub'.sub[s].buf) <= Len(hub.sub[s].buf)
               /\ hub'.sub[s].state = "closed"
          /\ (hub'.sub[s].unsubs = hub.sub[s].unsubs + 1) =>
               IF s \in hub.subscribers
               THEN /\ hub'.sub[s].state = "closed"
                    /\ hub'.sub[s].closes = hub.sub[s].closes + 1
                    /\ hub'.subscribers = hub.subscribers \ {s}
               ELSE /\ hub'.sub[s].state = hub.sub[s].state
                    /\ hub'.sub[s].closes = hub.sub[s].closes
                    /\ hub'.subscribers = hub.subscribers]_vars

\* one channel was unsubscribed twice, another was never subscribed and
\* unsubscribed, and the hub went on distributing afterwards
C23_Witness ==
  \E s, t \in Subs :
    /\ hub.sub[s].state = "closed" /\ hub.sub[s].unsubs = 2 /\ hub.sub[s].closes = 1
    /\ hub.sub[t].state = "none" /\ hub.sub[t].unsubs >= 1
    /\ hub.published = MaxPublished /\ hub.publish = <<>> /\ hub.pc = "select"
    /\ ~hub.panicked

\* ---------------------------------------------------------------- Dashboard run-time limit
\* everything but the Dashboard
notDashVars ==
  <<managed, script, dropRate, onRetry, pool, leak, ws, emitter, srv, behavior, curve, hub, meta, exec, configs, snapshot, window,
    behaviorStart, simVars, client, req, send, srvVars, metrics>>

\* Dashboard.stopSimulationTimer: Timer.Stop keeps a timer that has not fired
\* from firing and does nothing to one whose function was already started
stopSimulationTimer(d) ==
  IF d.stopTimer # 0
  THEN [d EXCEPT !.stopTimer = 0,
                 !.timer[d.stopTimer] = IF @ = "armed" THEN "stopped" ELSE @]
  ELSE d

\* Dashboard.resetSimulationUnsafe: Stop the previous simulation, make a new one
resetSimulationUnsafe(d) == [d EXCEPT !.simulation = "created", !.running = FALSE]

\* Dashboard.StopSimulation, under d.mu
StopSimulationLocked(d) ==
  LET d1 == stopSimulationTimer(d)
  IN IF d1.simulation = "nil" THEN d1 ELSE [d1 EXCEPT !.running = FALSE]

\* Dashboard.StartSimulation(limitSeconds...), under d.mu
StartSimulation(limit) ==
  /\ dash.run < MaxRuns
  /\ LET d1 == stopSimulationTimer(dash)
         d2 == IF d1.simulation = "nil" THEN resetSimulationUnsafe(d1) ELSE d1
         n == dash.run + 1
     IN dash' = IF d2.running THEN d2
                ELSE [d2 EXCEPT !.running = TRUE, !.run = n,
                                !.stopTimer = IF limit THEN n ELSE 0,
                                !.timer[n] = IF limit THEN "armed" ELSE "none"]
  /\ UNCHANGED notDashVars

\* Dashboard.StopSimulation called by a user
StopSimulation ==
  /\ dash' = StopSimulationLocked(dash)
  /\ UNCHANGED notDashVars

\* Dashboard.ResetSimulation, under d.mu
ResetSimulation ==
  /\ dash' = resetSimulationUnsafe(stopSimulationTimer(dash))
  /\ UNCHANGED notDashVars

\* the limit of run t elapses: the runtime starts the timer's function in its
\* own goroutine, which then waits for d.mu
TimerExpire(t) ==
  /\ dash.timer[t] = "armed"
  /\ dash' = [dash EXCEPT !.timer[t] = "fired"]
  /\ UNCHANGED notDashVars

\* the timer's function gets d.mu: d.StopSimulation()
TimerStopSimulation(t) ==
  /\ dash.timer[t] = "fired"
  /\ dash' = [StopSimulationLocked(dash) EXCEPT !.timer[t] = "done"]
  /\ UNCHANGED notDashVars

NextDash ==
  \/ \E limit \in BOOLEAN : StartSimulation(limit)
  \/ StopSimulation
  \/ ResetSimulation
  \/ \E t \in Runs : TimerExpire(t)
  \/ \E t \in Runs : TimerStopSimulation(t)

SpecDash == Init /\ [][NextDash]_vars

\* C24: the timer of a run stops only that run: when the function of the
\* timer scheduled for run t runs while a later run is running, that run
\* keeps running.
C24_TimerStopsOnlyItsRun ==
  [][\A t \in Runs :
       ( /\ dash.timer[t] = "fired" /\ dash'.timer[t] = "done"
         /\ dash.running /\ dash.run # t )
       => dash'.running]_vars

\* ---------------------------------------------------------------- CurveFunction
\* everything but the curve
notCurveVars ==
  <<managed, script, dropRate, onRetry, pool, leak, ws, emitter, srv, behavior, hub, dash, meta, exec, configs, snapshot, window,
    behaviorStart, simVars, client, req, send, srvVars, metrics>>

\* control points: X is in halves (0, 1/2, 1 are 0, 1, 2), Y is 0 or 1
PointXs == 0..2
PointYs == 0..1
BehaviorPoints == [X : PointXs, Y : PointYs]
Curves == UNION {[1..n -> BehaviorPoints] : n \in 0..MaxPoints}

\* normX as a fraction: 0 when maxX = minX, (x - minX) / (maxX - minX) otherwise
normX(cf, x) ==
  IF cf.maxX = cf.minX THEN [num |-> 0, den |-> 1]
  ELSE [num |-> x - cf.minX, den |-> cf.maxX - cf.minX]

\* denormY: minY + y * (maxY - minY)
denormY(cf, y) == cf.minY + y * (cf.maxY - cf.minY)

\* nx <= p.X and nx >= p.X for a fraction nx with a positive denominator
AtMostX(nx, p) == 2 * nx.num <= p.X * nx.den
AtLeastX(nx, p) == 2 * nx.num >= p.X * nx.den

\* a faulty closure: the upper clamp is taken only beyond the last point
CurveValueStrictUpper(cf, x) ==
  LET n == Len(cf.points)
      nx == normX(cf, x)
  IN IF n < 2 THEN [kind |-> "minY", y |-> cf.minY]
     ELSE IF AtMostX(nx, cf.points[1])
     THEN [kind |-> "first", y |-> denormY(cf, cf.points[1].Y)]
     ELSE IF AtLeastX(nx, cf.points[n]) /\ ~AtMostX(nx, cf.points[n])
     THEN [kind |-> "last", y |-> denormY(cf, cf.points[n].Y)]
     ELSE [kind |-> "interpolated", y |-> 0]

\* the closure CurveFunction returns, applied to x: the constant minY with
\* fewer than two points, the clamps at the first and the last point, an
\* interpolated value (not computed here) in between
CurveValue(cf, x) ==
  LET n == Len(cf.points)
      nx == normX(cf, x)
  IN IF n < 2 THEN [kind |-> "minY", y |-> cf.minY]
     ELSE IF AtMostX(nx, cf.points[1])
     THEN [kind |-> "first", y |-> denormY(cf, cf.points[1].Y)]
     ELSE IF AtLeastX(nx, cf.points[n])
     THEN [kind |-> "last", y |-> denormY(cf, cf.points[n].Y)]
     ELSE [kind |-> "interpolated", y |-> 0]

\* CurveFunction(minX, maxX, minY, maxY, points) makes the closure
CurveFunction(minX, maxX, minY, maxY, points) ==
  /\ ~curve.made
  /\ curve' = [NoCurve EXCEPT !.made = TRUE, !.minX = minX, !.maxX = maxX,
                              !.minY = minY, !.maxY = maxY, !.points = points]
  /\ UNCHANGED notCurveVars

\* the closure is applied to x
CurveApply(x) ==
  /\ curve.made
  /\ curve' = [curve EXCEPT !.applied = TRUE, !.x = x, !.result = CurveValue(curve, x)]
  /\ UNCHANGED notCurveVars

NextCurve ==
  \/ \E points \in (IF curve.made THEN {} ELSE Curves),
        minX \in 0..MaxX, maxX \in 0..MaxX, minY \in 0..1, maxY \in 1..2 :
       minX <= maxX /\ CurveFunction(minX, maxX, minY, maxY, points)
  \/ \E x \in -1..(MaxX + 1) : CurveApply(x)

SpecCurve == Init /\ [][NextCurve]_vars

\* a curve of at least two points from x = 0 to x = 1
Normalized(points) ==
  /\ Len(points) >= 2
  /\ points[1].X = 0
  /\ points[Len(points)].X = 2

\* C25: for a curve of at least 2 points with first x = 0 and last x = 1 and bounds
\* minX <= maxX, the curve function returns denorm(points[0].y) for every
\* x <= minX and denorm(points[last].y) for every x >= maxX; with fewer than
\* 2 points it returns minY for every x.
C25_ClampsAtBothBounds ==
  curve.applied =>
    /\ Len(curve.points) < 2 => curve.result.y = curve.minY
    /\ Normalized(curve.points) =>
         /\ curve.x <= curve.minX =>
              curve.result.y = denormY(curve, curve.points[1].Y)
         /\ curve.x >= curve.maxX =>
              curve.result.y = denormY(curve, curve.points[Len(curve.points)].Y)

\* C25, as far as it holds: the same with minX < maxX for the upper clamp; with
\* minX = maxX the function returns denorm(points[0].y) for every x.
C25_ClampsAtDistinctBounds ==
  curve.applied =>
    /\ Len(curve.points) < 2 =>
         (curve.result.kind = "minY" /\ curve.result.y = curve.minY)
    /\ Normalized(curve.points) =>
         /\ (curve.x <= curve.minX \/ curve.minX = curve.maxX) =>
              /\ curve.result.kind = "first"
              /\ curve.result.y = denormY(curve, curve.points[1].Y)
         /\ (curve.x >= curve.maxX /\ curve.minX < curve.maxX) =>
              /\ curve.result.kind = "last"
              /\ curve.result.y = denormY(curve, curve.points[Len(curve.points)].Y)

\* a curve from y = 0 up to y = 1 over distinct bounds was applied at maxX
C25_Witness ==
  /\ curve.applied
  /\ Normalized(curve.points) /\ Len(curve.points) = MaxPoints
  /\ curve.minX < curve.maxX /\ curve.x = curve.maxX
  /\ curve.points[1].Y = 0 /\ curve.points[Len(curve.points)].Y = 1
  /\ curve.minY < curve.maxY
  /\ curve.result.y = curve.maxY

\* ---------------------------------------------------------------- behaviors
\* everything but the behaviors
notBehaviorVars ==
  <<managed, script, dropRate, onRetry, pool, leak, ws, emitter, srv, curve, hub, dash, meta, exec, configs, snapshot,
    window, behaviorStart, simVars, client, req, send, srvVars, metrics>>

\* curves a PUT /api/server or /api/network may carry (x in halves)
JSONPoints == [X : PointXs, Y : {0}, Type : {"break", ""}]
JSONCurves ==
  {<<>>} \cup {<<p, q>> : p \in JSONPoints, q \in {r \in JSONPoints : r.Type = ""}}

\* BehaviorPointFromJSON: x and y are copied, the type is parsed
BehaviorPointFromJSON(epj) ==
  [X |-> epj.X, Y |-> epj.Y,
   Type |-> CASE epj.Type = "curve" -> "Curve"
              [] epj.Type = "break" -> "Break"
              [] OTHER -> "Curve"]

\* GenericMap(slice, BehaviorPointFromJSON)
GenericMap(slice) == [i \in 1..Len(slice) |-> BehaviorPointFromJSON(slice[i])]

\* ServerBehaviorFromJSON / NetworkBehaviorFromJSON, the three curves
BehaviorFromJSON(j) ==
  [rate |-> GenericMap(j.rate), min |-> GenericMap(j.min), max |-> GenericMap(j.max)]

\* a faulty SetBehavior: it leaves the behavior start time as it is
SetBehaviorKeepsStart(k, j) ==
  /\ behavior.comp[k].version < MaxVersions
  /\ LET v == behavior.comp[k].version + 1
     IN behavior' = [behavior EXCEPT
          !.comp[k].version = v,
          !.comp[k].curves = BehaviorFromJSON(j),
          !.comp[k].fn = [rate |-> v, min |-> v, max |-> v]]
  /\ UNCHANGED notBehaviorVars

\* Dashboard.SetServerBehavior / SetNetworkBehavior down to Server.SetBehavior
\* / Network.SetBehavior: under the component's lock the behavior is stored,
\* the start time is zeroed and the three closures are made anew
SetBehavior(k, j) ==
  /\ behavior.comp[k].version < MaxVersions
  /\ LET v == behavior.comp[k].version + 1
     IN behavior' = [behavior EXCEPT
          !.comp[k].version = v,
          !.comp[k].start = -1,
          !.comp[k].curves = BehaviorFromJSON(j),
          !.comp[k].fn = [rate |-> v, min |-> v, max |-> v]]
  /\ UNCHANGED notBehaviorVars

\* time passes
BehaviorTick ==
  /\ behavior.now < MaxClock
  /\ behavior' = [behavior EXCEPT !.now = @ + 1]
  /\ UNCHANGED notBehaviorVars

\* Server.processRequest / Network.Send, the part under the lock: the start
\* time is set if it is zero, then it and the three closures are copied to
\* locals; elapsedMs is computed from the local
UseCapture(u, k) ==
  /\ behavior.use[u].pc = "none"
  /\ LET c == behavior.comp[k]
         unset == c.start = -1
         start == IF unset THEN behavior.now ELSE c.start
         sv == IF unset THEN c.version ELSE c.startVersion
     IN behavior' = [behavior EXCEPT
          !.comp[k].start = start,
          !.comp[k].startVersion = sv,
          !.use[u] = [pc |-> "captured", comp |-> k, start |-> start,
                      startVersion |-> sv, fn |-> c.fn, first |-> unset,
                      elapsed |-> <<behavior.now - start>>, used |-> <<>>]]
  /\ UNCHANGED notBehaviorVars

\* the curves are evaluated from the locals: once by processRequest, and by
\* each of the two trips of Network.Send, the second with a new elapsedMs
UseEvaluate(u) ==
  /\ behavior.use[u].pc \in {"captured", "returning"}
  /\ LET w == behavior.use[u]
         again == w.pc = "returning"
     IN behavior' = [behavior EXCEPT
          !.use[u].used = Append(@, [start |-> w.startVersion, rate |-> w.fn.rate,
                                     min |-> w.fn.min, max |-> w.fn.max]),
          !.use[u].elapsed = IF again THEN Append(@, behavior.now - w.start) ELSE @,
          !.use[u].pc = IF w.comp = "network" /\ ~again THEN "returning" ELSE "done"]
  /\ UNCHANGED notBehaviorVars

NextBehavior ==
  \/ \E k \in Components, a \in JSONCurves :
       SetBehavior(k, [rate |-> a, min |-> a, max |-> a])
  \/ BehaviorTick
  \/ \E u \in Uses, k \in Components : UseCapture(u, k)
  \/ \E u \in Uses : UseEvaluate(u)

SpecBehavior == Init /\ [][NextBehavior]_vars

\* first x = 0 and last x = 1
EndsNormalized(points) ==
  Len(points) >= 1 => (points[1].X = 0 /\ points[Len(points)].X = 2)

\* C26: after any behavior is ingested, every stored curve has its first point
\* at x = 0 and its last point at x = 1.
C26_StoredCurvesNormalized ==
  \A k \in Components :
    /\ EndsNormalized(behavior.comp[k].curves.rate)
    /\ EndsNormalized(behavior.comp[k].curves.min)
    /\ EndsNormalized(behavior.comp[k].curves.max)

\* C27: one request uses curves of exactly one behavior version: every
\* evaluation of one processRequest, and of both trips of one Network.Send,
\* uses three closures of one version with a start time taken under that
\* version; a SetBehavior in between changes none of them; and the first
\* request after a SetBehavior starts at elapsed time zero.
C27_OneBehaviorVersionPerRequest ==
  \A u \in Uses :
    LET w == behavior.use[u]
    IN w.pc # "none" =>
         /\ w.fn.rate = w.fn.min /\ w.fn.min = w.fn.max
         /\ w.startVersion = w.fn.rate
         /\ \A i \in 1..Len(w.used) :
              w.used[i] = [start |-> w.fn.rate, rate |-> w.fn.rate,
                           min |-> w.fn.rate, max |-> w.fn.rate]
         /\ w.first => w.elapsed[1] = 0
         /\ \A i \in 1..Len(w.elapsed) : w.elapsed[i] >= 0
         /\ (behavior.comp[w.comp].start = -1) =>
              behavior.comp[w.comp].version > w.fn.rate

\* a Network.Send captured the old behavior, SetBehavior replaced it between
\* its trips, and the next request started the new curves at zero
C27_Witness ==
  \E u, n \in Uses :
    /\ behavior.use[u].comp = "network" /\ behavior.use[u].pc = "done"
    /\ behavior.use[u].fn.rate = 0 /\ Len(behavior.use[u].used) = 2
    /\ behavior.comp["network"].version = 1
    /\ behavior.use[n].comp = "network" /\ behavior.use[n].fn.rate = 1
    /\ behavior.use[n].first /\ behavior.use[n].start > behavior.use[u].start
    /\ behavior.use[u].elapsed[2] > behavior.use[n].elapsed[1]

\* ---------------------------------------------------------------- Server lifecycle
\* everything but the server of the lifecycle specification
notSrvVars ==
  <<managed, script, dropRate, onRetry, pool, leak, ws, emitter, curve, hub, dash, behavior, meta, exec, configs,
    snapshot, window, behaviorStart, simVars, client, req, send, srvVars, metrics>>

\* a faulty Start: it does not look at s.running
StartUnguarded ==
  /\ srv.call.pc = "idle"
  /\ srv.starts < MaxStarts
  /\ srv' = IF srv.enable
            THEN [srv EXCEPT !.running = TRUE, !.started = TRUE, !.ctxDone = FALSE,
                             !.starts = @ + 1,
                             !.resourceState = ZeroResourceState,
                             !.queue = [gen |-> @.gen + 1, len |-> 0],
                             !.rm = @ + 1,
                             !.idle = @ + ResourceSettings.MaxConcurrentRequests,
                             !.call = [op |-> "Start", pc |-> "idle", err |-> "nil"]]
            ELSE [srv EXCEPT !.running = TRUE, !.started = TRUE, !.ctxDone = FALSE,
                             !.starts = @ + 1,
                             !.call = [op |-> "Start", pc |-> "idle", err |-> "nil"]]
  /\ UNCHANGED notSrvVars

\* Server.Start: the CAS on s.running fails with an error; otherwise a new
\* context, and with resource management on a zeroed resource state, a new
\* queue, the resource manager and MaxConcurrentRequests workers
Start ==
  /\ srv.call.pc = "idle"
  /\ srv.starts < MaxStarts
  /\ srv' = IF srv.running
            THEN [srv EXCEPT !.starts = @ + 1,
                             !.call = [op |-> "Start", pc |-> "idle",
                                       err |-> "server already started"]]
            ELSE IF srv.enable
            THEN [srv EXCEPT !.running = TRUE, !.started = TRUE, !.ctxDone = FALSE,
                             !.starts = @ + 1,
                             !.resourceState = ZeroResourceState,
                             !.queue = [gen |-> @.gen + 1, len |-> 0],
                             !.rm = @ + 1,
                             !.idle = @ + ResourceSettings.MaxConcurrentRequests,
                             !.call = [op |-> "Start", pc |-> "idle", err |-> "nil"]]
            ELSE [srv EXCEPT !.running = TRUE, !.started = TRUE, !.ctxDone = FALSE,
                             !.starts = @ + 1,
                             !.call = [op |-> "Start", pc |-> "idle", err |-> "nil"]]
  /\ UNCHANGED notSrvVars

\* Server.Shutdown: the CAS on s.running fails and it returns; otherwise
\* s.cancel() and on to s.wg.Wait()
ShutdownBegin ==
  /\ srv.call.pc = "idle"
  /\ srv' = IF srv.running
            THEN [srv EXCEPT !.running = FALSE, !.ctxDone = TRUE,
                             !.call = [op |-> "Shutdown", pc |-> "wait", err |-> "nil"]]
            ELSE [srv EXCEPT !.call = [op |-> "Shutdown", pc |-> "idle", err |-> "nil"]]
  /\ UNCHANGED notSrvVars

\* Server.Shutdown: s.wg.Wait() returns
ShutdownReturn ==
  /\ srv.call.pc = "wait"
  /\ srv.idle + srv.busy + srv.rm = 0
  /\ srv' = [srv EXCEPT !.call.pc = "idle"]
  /\ UNCHANGED notSrvVars

\* Simulation.Stop cancels the simulation context, the parent of s.ctx,
\* before it calls Shutdown
ParentCancel ==
  /\ srv.running /\ ~srv.ctxDone
  /\ srv.call.pc = "idle"
  /\ srv' = [srv EXCEPT !.ctxDone = TRUE]
  /\ UNCHANGED notSrvVars

\* Server.SetBehavior: EnableResourceManagement is part of the behavior
SetEnableResourceManagement(e) ==
  /\ srv.enable # e
  /\ srv' = [srv EXCEPT !.enable = e]
  /\ UNCHANGED notSrvVars

\* handleRequestWithResources puts a request in the queue
Enqueue ==
  /\ srv.enable /\ srv.running /\ ~srv.ctxDone
  /\ srv.queue.gen > 0
  /\ srv.queue.len < ResourceSettings.MaxQueueSize
  /\ srv' = [srv EXCEPT !.queue.len = @ + 1]
  /\ UNCHANGED notSrvVars

\* worker: a request is taken from the queue; with the context done the
\* worker returns, otherwise the request is active
SrvWorkerDequeue ==
  /\ srv.idle > 0 /\ srv.queue.len > 0
  /\ srv' = IF srv.ctxDone
            THEN [srv EXCEPT !.queue.len = @ - 1, !.idle = @ - 1]
            ELSE [srv EXCEPT !.queue.len = @ - 1, !.idle = @ - 1, !.busy = @ + 1,
                             !.resourceState.ActiveRequests = @ + 1]
  /\ UNCHANGED notSrvVars

\* worker: the request is processed and answered, the worker loops
SrvWorkerFinish ==
  /\ srv.busy > 0
  /\ srv' = [srv EXCEPT !.busy = @ - 1, !.idle = @ + 1,
                        !.resourceState.ActiveRequests = @ - 1]
  /\ UNCHANGED notSrvVars

\* worker: the select takes s.ctx.Done()
SrvWorkerExit ==
  /\ srv.idle > 0 /\ srv.ctxDone
  /\ srv' = [srv EXCEPT !.idle = @ - 1]
  /\ UNCHANGED notSrvVars

\* resourceManager: a tick of the ticker, updateResources
SrvRMTick ==
  /\ srv.rm > 0
  /\ \E gc \in BOOLEAN :
       srv' = [srv EXCEPT !.resourceState = updateResources(@, gc)]
  /\ srv' # srv
  /\ UNCHANGED notSrvVars

\* resourceManager: the select takes s.ctx.Done()
SrvRMExit ==
  /\ srv.rm > 0 /\ srv.ctxDone
  /\ srv' = [srv EXCEPT !.rm = @ - 1]
  /\ UNCHANGED notSrvVars

NextServer ==
  \/ Start \/ ShutdownBegin \/ ShutdownReturn \/ ParentCancel
  \/ \E e \in BOOLEAN : SetEnableResourceManagement(e)
  \/ Enqueue \/ SrvWorkerDequeue \/ SrvWorkerFinish \/ SrvWorkerExit
  \/ SrvRMTick \/ SrvRMExit

SpecServer == Init /\ [][NextServer]_vars

\* Created, Running or Stopped
Lifecycle(s) ==
  IF s.running THEN "Running" ELSE IF s.started THEN "Stopped" ELSE "Created"

\* Created -> Running -> Stopped -> Running; Start on a running server is an
\* error and spawns nothing; Shutdown on a server that does not run is a
\* no-op; when Shutdown returns no worker and no resource manager is left
LifecycleStep ==
  /\ Lifecycle(srv) # Lifecycle(srv') =>
       <<Lifecycle(srv), Lifecycle(srv')>> \in
         {<<"Created", "Running">>, <<"Running", "Stopped">>, <<"Stopped", "Running">>}
  /\ (srv.running /\ Start) =>
       /\ srv'.call.err = "server already started"
       /\ srv' = [srv EXCEPT !.call = srv'.call, !.starts = srv'.starts]
  /\ (~srv.running /\ ShutdownBegin) =>
       srv' = [srv EXCEPT !.call = [op |-> "Shutdown", pc |-> "idle", err |-> "nil"]]
  /\ ShutdownReturn => srv'.idle + srv'.busy + srv'.rm = 0
  /\ srv'.idle + srv'.busy <= ResourceSettings.MaxConcurrentRequests
  /\ srv'.rm <= 1

notEmitterVars ==
  <<managed, script, dropRate, onRetry, pool, leak, ws, srv, curve, hub, dash, behavior, meta, exec,
    configs, snapshot, window, behaviorStart, simVars, client, req, send,
    srvVars, metrics>>

\* Dashboard.StartSimulation up to the send on me.watch: Simulation.Start
\* returns nil when the simulation runs and StartSimulation returns;
\* otherwise the run has a new context and the call, holding d.mu, goes on
\* to WatchSimulationRun
EmitterStartSimulation ==
  /\ emitter.call = "idle"
  /\ emitter.sim.run < MaxWatched
  /\ emitter' = IF emitter.sim.running
                THEN emitter
                ELSE [emitter EXCEPT !.sim = [running |-> TRUE, run |-> @.run + 1],
                                     !.call = "watch"]
  /\ emitter' # emitter
  /\ UNCHANGED notEmitterVars

\* WatchSimulationRun and the receive of MetricsEmitter.run meet on the
\* unbuffered channel: the emitter has the new run and a new ticker, the
\* dashboard call goes on to its end and releases d.mu
WatchSimulationRun ==
  /\ emitter.call = "watch"
  /\ emitter.pc = "recv"
  /\ emitter' = [emitter EXCEPT !.pc = "loop", !.run = emitter.sim.run,
                                !.ticks = 0, !.late = 0, !.call = "idle"]
  /\ UNCHANGED notEmitterVars

\* Dashboard.StopSimulation, and ResetSimulation through
\* resetSimulationUnsafe: Simulation.Stop cancels the context of the run
EmitterStopSimulation ==
  /\ emitter.call = "idle"
  /\ emitter.sim.running
  /\ emitter' = [emitter EXCEPT !.sim.running = FALSE,
                                !.done[emitter.sim.run] = TRUE]
  /\ UNCHANGED notEmitterVars

\* the select of the inner loop takes ticker.C: metrics() and Publish, which
\* does not block
EmitterTick ==
  /\ emitter.pc = "loop"
  /\ emitter' = [emitter EXCEPT
       !.ticks = IF @ < MaxTicks THEN @ + 1 ELSE 1,
       !.late = IF emitter.done[emitter.run] THEN (IF @ < MaxTicks THEN @ + 1 ELSE 1)
                ELSE @]
  /\ UNCHANGED notEmitterVars

\* a faulty loop: the break leaves the select only
EmitterCtxDoneBreaksSelect ==
  /\ emitter.pc = "loop"
  /\ emitter.done[emitter.run]
  /\ emitter' = [emitter EXCEPT !.ticks = 0]
  /\ UNCHANGED notEmitterVars

\* the select of the inner loop takes ctx.Done(): break run, ticker.Stop(),
\* back to the receive on me.watch
EmitterCtxDone ==
  /\ emitter.pc = "loop"
  /\ emitter.done[emitter.run]
  /\ emitter' = [emitter EXCEPT !.pc = "recv", !.ticks = 0]
  /\ UNCHANGED notEmitterVars

NextEmitter ==
  \/ EmitterStartSimulation \/ WatchSimulationRun \/ EmitterStopSimulation
  \/ EmitterTick \/ EmitterCtxDone

\* a select whose ctx.Done() case stays ready takes it after finitely many
\* ticks; a send and a receive that are both waiting on the channel meet
SpecEmitter ==
  /\ Init /\ [][NextEmitter]_vars
  /\ WF_vars(EmitterCtxDone) /\ WF_vars(WatchSimulationRun)

\* the emitter is in the loop of run r
Emitting(r) == emitter.pc = "loop" /\ emitter.run = r

\* C29: after the context of a watched run is cancelled the emitter
\* eventually leaves the loop of that run for good, and a StartSimulation
\* that waits in WatchSimulationRun eventually gets through.
C29_EmitterLeavesCancelledRun ==
  /\ \A r \in Watched : (emitter.done[r] /\ Emitting(r)) ~> [](~Emitting(r))
  /\ (emitter.call = "watch") ~> (emitter.call = "idle")

\* the next StartSimulation waits in WatchSimulationRun while the emitter
\* still ticks for the cancelled run
C29_Witness ==
  /\ emitter.call = "watch" /\ emitter.sim.run = 2
  /\ Emitting(1) /\ emitter.done[1] /\ emitter.late > 0

\* ---------------------------------------------------------------- WebSocketHub
\* everything but the notification hub
notWsVars ==
  <<managed, script, dropRate, onRetry, pool, leak, emitter, srv, curve, hub, dash, behavior, meta,
    exec, configs, snapshot, window, behaviorStart, simVars, client, req, send,
    srvVars, metrics>>

\* time passes
WsTick ==
  /\ ~ws.panicked
  /\ ws.now < WsMaxNow
  /\ ws' = [ws EXCEPT !.now = @ + 1]
  /\ UNCHANGED notWsVars

\* run takes a client from h.register
WsRegister(c) ==
  /\ ~ws.panicked
  /\ ws.pc = "select"
  /\ ws.state[c] = "new"
  /\ ws' = [ws EXCEPT !.clients = @ \cup {c}, !.state[c] = "registered"]
  /\ UNCHANGED notWsVars

\* the reader goroutine leaves on a read error (the peer is gone, or
\* WritePump closed the connection) and sends the client on h.unregister;
\* run takes it
WsUnregister(c) ==
  /\ ~ws.panicked
  /\ ws.pc = "select"
  /\ ws.state[c] \in {"registered", "closed"}
  /\ ws' = [ws EXCEPT !.clients = @ \ {c}, !.state[c] = "unregistered"]
  /\ UNCHANGED notWsVars

\* the values a read of h.lastBroadcastTime under h.mu can give: run writes
\* the field without the lock, so until run takes the lock the read may give
\* the value before the write
LastBroadcastTimes ==
  IF ws.pc = "locked" THEN {ws.lastBroadcastTime, ws.overwritten}
  ELSE {ws.lastBroadcastTime}

\* now.Sub(h.lastBroadcastTime) < h.minBroadcastInterval
Throttled(last) == last # -1 /\ ws.now - last < minBroadcastInterval

\* Dashboard.Notify: the message is marshalled and given to Broadcast, which
\* under h.mu skips it when there are clients and the last broadcast is less
\* than minBroadcastInterval ago, and otherwise sends it on h.broadcast if
\* the channel has room
Notify(n) ==
  /\ ~ws.panicked
  /\ ws.issued < MaxNotifications /\ n = ws.issued + 1
  /\ \E last \in LastBroadcastTimes :
       ws' = IF ws.clients # {} /\ Throttled(last)
             THEN [ws EXCEPT !.issued = n]
             ELSE IF Len(ws.broadcast) < WsBroadcastCap
             THEN [ws EXCEPT !.issued = n, !.broadcast = Append(@, n)]
             ELSE [ws EXCEPT !.issued = n]
  /\ UNCHANGED notWsVars

\* run takes a message from h.broadcast and writes h.lastBroadcastTime
WsReceive ==
  /\ ~ws.panicked
  /\ ws.pc = "select"
  /\ ws.broadcast # <<>>
  /\ ws' = [ws EXCEPT !.pc = "locked", !.message = Head(ws.broadcast),
                      !.broadcast = Tail(@),
                      !.overwritten = ws.lastBroadcastTime,
                      !.lastBroadcastTime = ws.now]
  /\ UNCHANGED notWsVars

\* run, under h.mu: the message goes to the send buffer of every client
\* that has room; a client whose buffer is full is closed and deleted
WsDeliver ==
  /\ ~ws.panicked
  /\ ws.pc = "locked"
  /\ LET full(c) == Len(ws.sendBuffer[c]) >= WsSendCap
     IN ws' = [ws EXCEPT
          !.pc = "select", !.message = 0,
          !.sendBuffer = [c \in WsClients |->
                            IF c \in ws.clients /\ ~full(c)
                            THEN Append(@[c], ws.message) ELSE @[c]],
          !.state = [c \in WsClients |->
                       IF c \in ws.clients /\ full(c) THEN "closed" ELSE @[c]],
          !.closes = [c \in WsClients |->
                        IF c \in ws.clients /\ full(c) THEN @[c] + 1 ELSE @[c]],
          !.clients = {c \in @ : ~full(c)}]
  /\ UNCHANGED notWsVars

\* WritePump takes a message from the send buffer and writes it
WritePump(c) ==
  /\ ~ws.panicked
  /\ ws.sendBuffer[c] # <<>>
  /\ ws' = [ws EXCEPT !.sendBuffer[c] = Tail(@)]
  /\ UNCHANGED notWsVars

\* the reader goroutine, after unregisterFunc: close(c.sendBuffer); closing
\* a closed channel panics
StartReaderClose(c) ==
  /\ ~ws.panicked
  /\ ws.state[c] = "unregistered"
  /\ ws' = [ws EXCEPT !.state[c] = "gone", !.closes[c] = @ + 1,
                      !.panicked = ws.closes[c] > 0]
  /\ UNCHANGED notWsVars

NextWs ==
  \/ WsTick
  \/ \E c \in WsClients :
       WsRegister(c) \/ WsUnregister(c) \/ WritePump(c) \/ StartReaderClose(c)
  \/ \E n \in Notifications : Notify(n)
  \/ WsReceive \/ WsDeliver

SpecWs == Init /\ [][NextWs]_vars

\* C30: every notification the dashboard issues while a client is registered
\* and the broadcast channel has room is queued for broadcast; none is
\* skipped because another one was broadcast shortly before it.
C30_NoNotificationSkipped ==
  [][\A n \in Notifications :
       (ws.clients # {} /\ Len(ws.broadcast) < WsBroadcastCap /\ Notify(n)) =>
         ws'.broadcast = Append(ws.broadcast, n)]_vars

\* ---------------------------------------------------------------- memory leak
\* everything but the leak
notLeakVars ==
  <<managed, script, dropRate, onRetry, pool, ws, emitter, srv, curve, hub, dash, behavior,
    meta, exec, configs, snapshot, window, behaviorStart, simVars, client, req,
    send, srvVars, metrics>>

\* a behavior with a positive leak rate and a constant load above 0.1
LeakSettings(rate, active, maxReqs) ==
  /\ leak = NoLeak
  /\ active * 10 > maxReqs
  /\ leak' = [rate |-> rate, active |-> active, maxReqs |-> maxReqs,
              ticks |-> 0, leaked |-> 0]
  /\ UNCHANGED notLeakVars

\* one tick of the resource manager at that load, below the memory cap and
\* without a GC: CurrentMemoryMB += int64(leakAmount)
LeakTick ==
  /\ leak.rate > 0
  /\ leak.ticks < MaxLeakTicks
  /\ leak' = [leak EXCEPT
       !.ticks = @ + 1,
       !.leaked = @ + leakAmount(leak.rate, leak.active, leak.maxReqs)]
  /\ UNCHANGED notLeakVars

NextLeak ==
  \/ \E rate \in 1..MaxLeakRate, maxReqs \in 1..MaxLeakWorkers :
       \E active \in 1..maxReqs : LeakSettings(rate, active, maxReqs)
  \/ LeakTick

SpecLeak == Init /\ [][NextLeak]_vars

\* C31: over k consecutive ticks at constant load above 0.1 the leaked memory
\* is k * memoryLeakRateMBPerSec * 0.1 * loadFactor MB up to 1 MB of rounding
\* (both sides times 10 * maxReqs).
C31_LeakIsRateTimesLoad ==
  LET expected == leak.ticks * leak.rate * leak.active
      got == leak.leaked * 10 * leak.maxReqs
  IN leak.rate > 0 =>
       /\ got - expected <= 10 * leak.maxReqs
       /\ expected - got <= 10 * leak.maxReqs

\* ---------------------------------------------------------------- counters
\* an attempt was counted as sent and sendRequest has not returned yet
AttemptInFlight == \E c \in Clients, r \in ReqIds : req[c][r].pc = "wait"

\* C32: the client counters are conserved: success + error responses +
\* network failures never exceed the sent attempts, retries never exceed the
\* sent attempts, and with no attempt in flight every sent attempt has ended
\* in exactly one of the three.
C32_ClientCountersConserved ==
  simPc # "panicked" =>
    /\ metrics.success + metrics.errorResp + metrics.netFailed <= metrics.sent
    /\ metrics.retried <= metrics.sent
    /\ ~AttemptInFlight =>
         metrics.success + metrics.errorResp + metrics.netFailed = metrics.sent

\* a first attempt failed in the network, its retry was answered, and nothing
\* is in flight
C32_Witness ==
  /\ simPc # "panicked" /\ ~AttemptInFlight
  /\ metrics.sent = 2 /\ metrics.retried = 1
  /\ metrics.netFailed = 1 /\ metrics.success + metrics.errorResp = 1

\* C33: the counters are ordered across the layers: the client never counts
\* more successes or error responses than the server, the server never
\* answers more requests than it received, and never receives more than the
\* clients sent.
C33_CountersOrderedAcrossLayers ==
  simPc # "panicked" =>
    /\ metrics.success <= metrics.srvSuccess
    /\ metrics.errorResp <= metrics.srvError
    /\ metrics.srvSuccess + metrics.srvError <= metrics.srvReceived
    /\ metrics.srvReceived <= metrics.sent

\* a request was answered by the server and lost on the way back, its retry
\* came through
C33_Witness ==
  /\ simPc # "panicked"
  /\ metrics.sent = 2 /\ metrics.srvReceived = 2
  /\ metrics.srvSuccess + metrics.srvError = 2
  /\ metrics.success + metrics.errorResp = 1 /\ metrics.netFailed = 1

\* ---------------------------------------------------------------- settings changed while running
\* everything but the server whose settings change
notPoolVars ==
  <<managed, script, dropRate, onRetry, leak, ws, emitter, srv, curve, hub, dash,
    behavior, meta, exec, configs, snapshot, window, behaviorStart, simVars,
    client, req, send, srvVars, metrics>>

\* Server.Start: with resource management on, a new queue of MaxQueueSize,
\* a zeroed resource state and MaxConcurrentRequests workers
PoolStart ==
  /\ ~pool.running /\ pool.workers = 0
  /\ pool' = IF pool.enable
             THEN [pool EXCEPT !.running = TRUE, !.ctxDone = FALSE,
                               !.queueCap = pool.settings.MaxQueueSize,
                               !.queueLen = 0, !.ActiveRequests = 0,
                               !.workers = pool.settings.MaxConcurrentRequests,
                               !.last = "none"]
             ELSE [pool EXCEPT !.running = TRUE, !.ctxDone = FALSE, !.last = "none"]
  /\ UNCHANGED notPoolVars

\* Server.SetBehavior: the behavior and the resource settings are replaced;
\* the queue and the workers stay as Start made them
PoolSetBehavior(enable, maxReqs, maxQueue) ==
  /\ pool' = [pool EXCEPT !.enable = enable,
                          !.settings = [MaxConcurrentRequests |-> maxReqs,
                                        MaxQueueSize |-> maxQueue]]
  /\ pool' # pool
  /\ UNCHANGED notPoolVars

\* Server.HandleRequest: the direct path, or handleRequestWithResources up
\* to the non-blocking send on s.requestQueue (a send on a nil channel is
\* never ready)
PoolHandleRequest ==
  /\ pool.running /\ ~pool.ctxDone
  /\ pool' = IF ~pool.enable
             THEN [pool EXCEPT !.last = "direct"]
             ELSE IF pool.queueCap >= 0 /\ pool.queueLen < pool.queueCap
             THEN [pool EXCEPT !.queueLen = @ + 1, !.last = "queued"]
             ELSE [pool EXCEPT !.last = "server queue full"]
  /\ UNCHANGED notPoolVars

\* worker: a request is taken from the queue and counted as active, or with
\* the context done the worker returns
PoolWorkerDequeue ==
  /\ pool.workers - pool.ActiveRequests > 0 /\ pool.queueLen > 0
  /\ pool' = IF pool.ctxDone
             THEN [pool EXCEPT !.queueLen = @ - 1, !.workers = @ - 1]
             ELSE [pool EXCEPT !.queueLen = @ - 1, !.ActiveRequests = @ + 1]
  /\ UNCHANGED notPoolVars

\* worker: the request is processed and answered
PoolWorkerFinish ==
  /\ pool.ActiveRequests > 0
  /\ pool' = [pool EXCEPT !.ActiveRequests = @ - 1]
  /\ UNCHANGED notPoolVars

\* worker: the select takes s.ctx.Done()
PoolWorkerExit ==
  /\ pool.ctxDone /\ pool.workers - pool.ActiveRequests > 0
  /\ pool' = [pool EXCEPT !.workers = @ - 1]
  /\ UNCHANGED notPoolVars

\* Server.Shutdown: the CAS and s.cancel(); s.wg.Wait() is over when the
\* last worker has left
PoolShutdown ==
  /\ pool.running
  /\ pool' = [pool EXCEPT !.running = FALSE, !.ctxDone = TRUE]
  /\ UNCHANGED notPoolVars

NextPool ==
  \/ PoolStart \/ PoolHandleRequest \/ PoolWorkerDequeue \/ PoolWorkerFinish
  \/ PoolWorkerExit \/ PoolShutdown
  \/ \E enable \in BOOLEAN, maxReqs \in 1..MaxPoolWorkers, maxQueue \in 1..MaxPoolQueue :
       PoolSetBehavior(enable, maxReqs, maxQueue)

SpecPool == Init /\ [][NextPool]_vars

\* C34: in managed mode the number of requests processed at once is between
\* 0 and the current maxConcurrentRequests, also when SetBehavior changes the
\* settings while the server runs.
C34_ActiveWithinCurrentLimit ==
  /\ pool.ActiveRequests >= 0
  /\ pool.ActiveRequests <= pool.settings.MaxConcurrentRequests

\* C35: in managed mode HandleRequest answers "server queue full" only when
\* the queue holds maxQueueSize pending requests, also after SetBehavior
\* switched resource management on or changed maxQueueSize while the server
\* runs.
C35_QueueFullOnlyWhenFull ==
  [][(PoolHandleRequest /\ pool'.last = "server queue full") =>
       pool.queueLen = pool.settings.MaxQueueSize]_vars

\* C36: Simulation.Stop never runs Client.Stop on a client whose Start has
\* not set the cancel function yet.
C36_StopFindsCancelSet ==
  \A c \in Clients : client[c].stopPc = "cancel" => client[c].cancelSet

\* Metrics.ActiveClientsByGroup of the one group: runWithJitter adds the
\* client when it starts and removes it when it returns
ActiveClientsByGroup ==
  Cardinality({c \in Clients : client[c].loopPc \in {"check", "spawn", "sleep"}})

\* C37: the active-client count of a group is between 0 and the group's
\* client count, and once Simulation.Stop has returned it is 0 and the
\* simulation's client list is empty.
C37_NoActiveClientAfterStop ==
  /\ ActiveClientsByGroup <= Cardinality(Clients)
  /\ simPc = "returned" => (ActiveClientsByGroup = 0 /\ simClients = {})

\* ---------------------------------------------------------------- on_retry
\* everything but the on_retry evaluation
notOnRetryVars ==
  <<managed, script, dropRate, pool, leak, ws, emitter, srv, curve, hub, dash,
    behavior, meta, exec, configs, snapshot, window, behaviorStart, simVars,
    client, req, send, srvVars, metrics>>

\* requestWithHooks after a failed attempt: behavior.OnRetry gives
\* (shouldRetry, retryDelayMs) from executeFunction(execOnRetry)
OnRetry(defined, raises, v) ==
  /\ onRetry.pc = "none"
  /\ LET result == executeFunction("on_retry", defined, raises, v)
     IN onRetry' = [pc |-> "decided", defined |-> defined, raises |-> raises,
                    value |-> v, shouldRetry |-> result.allow,
                    retryDelayMs |-> result.delayMs]
  /\ UNCHANGED notOnRetryVars

\* requestWithHooks: with shouldRetry the retry delay and then the next
\* attempt, otherwise the request is over
OnRetryHandled ==
  /\ onRetry.pc = "decided"
  /\ onRetry' = [onRetry EXCEPT !.pc =
                   IF onRetry.shouldRetry
                   THEN (IF onRetry.retryDelayMs > 0 THEN "retryDelay" ELSE "retry")
                   ELSE "done"]
  /\ UNCHANGED notOnRetryVars

\* SleepWithContext returns after the retry delay
OnRetryDelayElapsed ==
  /\ onRetry.pc = "retryDelay"
  /\ onRetry' = [onRetry EXCEPT !.pc = "retry"]
  /\ UNCHANGED notOnRetryVars

NextOnRetry ==
  \/ \E defined \in BOOLEAN, raises \in BOOLEAN, v \in ScriptValues :
       OnRetry(defined, raises, v)
  \/ OnRetryHandled \/ OnRetryDelayElapsed

SpecOnRetry == Init /\ [][NextOnRetry]_vars

\* C38: a request is retried only when the result of on_retry is a mapping
\* whose "allow" is true; a hook that returns None, a non-mapping or a
\* mapping without "allow" causes no retry, like a script without on_retry.
C38_RetryOnlyOnExplicitAllow ==
  onRetry.pc \in {"retry", "retryDelay"} =>
    /\ onRetry.defined
    /\ onRetry.value.isDict /\ onRetry.value.allow = "true"

\* C39: the send buffer of a WebSocket client is closed exactly once, whether
\* the hub evicts the client, its reader leaves, or both.
C39_SendBufferClosedOnce ==
  /\ \A c \in WsClients : ws.closes[c] <= 1
  /\ ~ws.panicked

\* C40: StartSimulation on a running simulation changes nothing: the run
\* goes on, no new run is made, and the run-time-limit timer armed by the
\* original start stays armed.
C40_StartOnRunningChangesNothing ==
  [][\A limit \in BOOLEAN :
       (dash.running /\ StartSimulation(limit)) => dash' = dash]_vars

====
